---- MODULE Spec2Model ----
(***************************************************************************)
(* A model of calbot's streaming tool-use agent loop:                      *)
(*   - the date/time normaliser          (src/src/cli-helpers.ts 339-522)  *)
(*   - the calendar helpers              (src/src/google-tools.ts)         *)
(*   - the tool dispatcher handleToolCall (src/src/tools.ts 426-711)       *)
(*   - the streaming aggregator LLM.call (src/src/cli-helpers.ts 658-766)  *)
(*   - the loop driver                   (src/src/cli-helpers.ts 769-796)  *)
(*                                                                         *)
(* The specifications share the variables:                                 *)
(*   Spec         the agent loop, with LLM.call and every dispatch in it   *)
(*   SpecAgg      one LLM.call over an arbitrary stream of fragments       *)
(*   SpecDispatch one handleToolCall on an arbitrary request               *)
(*   SpecNorm     the normaliser on one date/time text                     *)
(*   SpecWindow   the conflict and free-time computations on one window    *)
(*   SpecBash     one executeBash, its subprocess and its timer            *)
(*   SpecFormat   formatGoogleApiError on one rejection                    *)
(*   SpecLogin    the login, logout and balance commands, one process each *)
(*                                                                         *)
(* Instants are integers, milliseconds since the epoch as in a JS Date.    *)
(***************************************************************************)
EXTENDS Integers, Sequences, FiniteSets, TLC

VARIABLES
  pc,             \* where the driver stands: userInput, call, streaming, returned, dispatch,
                  \* exited, interrupted, failed; in SpecDispatch: ready, done;
                  \* in SpecNorm: normalized, validated, renormalized; in SpecWindow also: rechecked; in SpecLogin: shell, command
  msg,            \* loop's local msg: the input of the next LLM.call
  messages,       \* LLM.messages, the session history
  systemPrompt,   \* LLM.systemPrompt, built by the constructor
  lastRequest,    \* message list of the latest completions.create request
  inflight,       \* completion-service requests in flight
  turns,          \* completion requests issued so far
  chunks,         \* chunks of the current stream consumed so far
  stream,         \* tool-call fragments of the current stream consumed so far, in order
  textIn,         \* text fragments of the current stream consumed so far, in order
  outputText,     \* LLM.call's outputText
  sink,           \* what logger.streamChunk was handed, in order
  toolCalls,      \* LLM.call's toolCalls
  currentToolCall,\* LLM.call's currentToolCall (None when null)
  parseErrors,    \* argument texts whose JSON.parse threw (logger.error), in order
  running,        \* indices of this turn's dispatched tool calls not yet settled
  results,        \* settled results of this turn, by request index
  auth,           \* the calendar handle of the session (TRUE when present)
  now,            \* the system clock
  backendCalls,   \* calendar-service operations performed, in order
  request,        \* SpecDispatch: the ToolCall handed to handleToolCall; SpecLogin: the command
  outcome,        \* SpecDispatch: what handleToolCall did with it; SpecLogin: .env and env
  tz              \* the host's time zone

vars == <<pc, msg, messages, systemPrompt, lastRequest, inflight, turns, chunks, stream,
          textIn, outputText, sink, toolCalls, currentToolCall, parseErrors,
          running, results, auth, now, backendCalls, request, outcome, tz>>

None == [t |-> "none"]

(***************************************************************************)
(* Bounds of the model.                                                    *)
(***************************************************************************)
\* completion requests per session
MaxTurns == 2
\* chunks of one stream in the loop
MaxChunks == 2
\* fragments of one stream in SpecAgg
MaxFragments == 4
\* how far (ms) the clock may advance during one dispatch
MaxClockStep == 1

(***************************************************************************)
(* Time values: milliseconds since 1970-01-01T00:00Z, the day and month     *)
(* arithmetic of Date, and the host's time zone.                           *)
(***************************************************************************)
MsPerDay == 86400000
MsPerHour == 3600000
MsPerMinute == 60000
MsPerSecond == 1000

\* the host's time zone, as far as Date reads it: local time is UTC + before up to the
\* instant at, and UTC + after from it on
Zone(at, before, after) == [at |-> at, before |-> before, after |-> after]
\* local time of the instant t
LocalTime(t) == t + (IF t < tz.at THEN tz.before ELSE tz.after)
\* the instant of the local time tl; a local time the transition skips or repeats is read
\* with the offset in force before the transition
UTC(tl) ==
  IF tl - tz.before < tz.at THEN tl - tz.before
  ELSE IF tl - tz.after >= tz.at THEN tl - tz.after
  ELSE tl - tz.before

\* day number and time within the day of a time value
Day(t) == t \div MsPerDay
TimeWithinDay(t) == t % MsPerDay
\* the day number of day d of month m (1..12) of year y, counting years from March
\* in eras of 400 years: yy is the year, mp the month counted from March
DayOfEra(yoe, mp, d) == yoe * 365 + yoe \div 4 - yoe \div 100 + (153 * mp + 2) \div 5 + d - 1
DaysFromMarch(yy, mp, d) ==
  (yy \div 400) * 146097 + DayOfEra(yy - (yy \div 400) * 400, mp, d) - 719468
DaysFromCivil(y, m, d) == DaysFromMarch(IF m <= 2 THEN y - 1 ELSE y, (m + 9) % 12, d)
\* year, month (1..12) and day of the month of a day number: doe is the day of the
\* era, yoe the year of the era, doy the day of the year from March, mp its month
CivilOfMonth(era, yoe, doy, mp) ==
  [year |-> yoe + era * 400 + (IF mp >= 10 THEN 1 ELSE 0),
   month |-> IF mp < 10 THEN mp + 3 ELSE mp - 9,
   date |-> doy - (153 * mp + 2) \div 5 + 1]
CivilOfDay(era, yoe, doy) == CivilOfMonth(era, yoe, doy, (5 * doy + 2) \div 153)
CivilOfYear(era, doe, yoe) ==
  CivilOfDay(era, yoe, doe - (365 * yoe + yoe \div 4 - yoe \div 100))
CivilOfEra(era, doe) ==
  CivilOfYear(era, doe, (doe - doe \div 1460 + doe \div 36524 - doe \div 146096) \div 365)
CivilOfShifted(zz) == CivilOfEra(zz \div 146097, zz - (zz \div 146097) * 146097)
CivilFromDays(z) == CivilOfShifted(z + 719468)
\* MakeDay(year, month, date) with month counted from 0: a month outside 0..11 carries
\* into the year, a date outside the month carries into the neighbouring months
MakeDay(year, month, date) ==
  DaysFromCivil(year + month \div 12, (month % 12) + 1, 1) + date - 1
MakeTime(hour, min, sec, ms) == hour * MsPerHour + min * MsPerMinute + sec * MsPerSecond + ms
MakeDate(day, time) == day * MsPerDay + time

\* the local fields of an instant: getFullYear, getMonth (from 0), getDate, getHours ...
getFullYear(t) == CivilFromDays(Day(LocalTime(t))).year
getMonth(t) == CivilFromDays(Day(LocalTime(t))).month - 1
getDate(t) == CivilFromDays(Day(LocalTime(t))).date
getHours(t) == TimeWithinDay(LocalTime(t)) \div MsPerHour
getMinutes(t) == (TimeWithinDay(LocalTime(t)) % MsPerHour) \div MsPerMinute
getSeconds(t) == (TimeWithinDay(LocalTime(t)) % MsPerMinute) \div MsPerSecond
\* a setDate that moves the instant by whole days of 24 hours
setDateUTC(t, dt) == t + (dt - getDate(t)) * MsPerDay
\* date.setDate(dt): the same local time of day on day dt of the local month of t
setDate(t, dt) ==
  UTC(MakeDate(MakeDay(getFullYear(t), getMonth(t), dt), TimeWithinDay(LocalTime(t))))
\* new Date(year, month, day, hour, minute, second): local fields, month from 0
NewDateLocal(year, month, day, hour, minute, second) ==
  UTC(MakeDate(MakeDay(year, month, day), MakeTime(hour, minute, second, 0)))

\* decimal digits, padded with zeros to the width w
Pad(n, w) ==
  IF w >= 4 /\ n < 1000 THEN "0" \o (IF n < 100 THEN "0" ELSE "") \o (IF n < 10 THEN "0" ELSE "") \o ToString(n)
  ELSE IF w >= 3 /\ n < 100 THEN "0" \o (IF n < 10 THEN "0" ELSE "") \o ToString(n)
  ELSE IF w >= 2 /\ n < 10 THEN "0" \o ToString(n)
  ELSE ToString(n)
\* YYYY-MM-DDTHH:mm:ss.sssZ of the civil date c and the time w within the day
IsoOfFields(c, w) ==
  Pad(c.year, 4) \o "-" \o Pad(c.month, 2) \o "-" \o Pad(c.date, 2) \o "T"
  \o Pad(w \div MsPerHour, 2) \o ":" \o Pad((w % MsPerHour) \div MsPerMinute, 2) \o ":"
  \o Pad((w % MsPerMinute) \div MsPerSecond, 2) \o "." \o Pad(w % MsPerSecond, 3) \o "Z"
\* date.toISOString(): the text of the instant in UTC
toISOString(t) == IsoOfFields(CivilFromDays(Day(t)), TimeWithinDay(t))

(***************************************************************************)
(* JavaScript values, as far as the tool inputs carry them.  A string is   *)
(* kept by its lexical form, which is what parseStringDate's regular       *)
(* expressions decide.                                                     *)
(***************************************************************************)
Undef == [t |-> "undefined"]
Null == [t |-> "null"]
Num(n) == [t |-> "number", n |-> n]
\* a number with a fractional part: n, a point and the digits frac
Fraction(n, frac) == [t |-> "number", n |-> n, frac |-> frac]
\* Number.isInteger(v)
isInteger(v) == v.t = "number" /\ "frac" \notin DOMAIN v
\* a string that is no date expression; Str("") is the empty string
Str(s) == [t |-> "string", form |-> "text", s |-> s]
\* a canonical ISO 8601 datetime with zone Z that denotes instant i
IsoStr(i) == [t |-> "string", form |-> "iso", inst |-> i]
\* the literals today / tomorrow / yesterday
Literal(w) == [t |-> "string", form |-> w]
\* an ISO 8601 datetime as written: YYYY-MM-DDTHH:mm:ss, then .sss unless frac < 0, then
\* nothing (zs = ""), Z, or a numeric offset zs zh:zm with zs + or -
IsoText(y, mo, d, h, mi, s, frac, zs, zh, zm) ==
  [t |-> "string", form |-> "isotext", y |-> y, mo |-> mo, d |-> d, h |-> h, mi |-> mi,
   s |-> s, frac |-> frac, zs |-> zs, zh |-> zh, zm |-> zm]
\* a US date as written: M/D/YYYY, then H:MM unless h < 0, then :SS unless s < 0, then
\* AM or PM unless ampm = ""
UsText(mo, d, y, h, mi, s, ampm) ==
  [t |-> "string", form |-> "us", mo |-> mo, d |-> d, y |-> y, h |-> h, mi |-> mi,
   s |-> s, ampm |-> ampm]
\* the characters of a string value
TextOfString(v) ==
  CASE v.form = "text" -> v.s
    [] v.form = "iso" -> toISOString(v.inst)
    [] v.form = "isotext" ->
         Pad(v.y, 4) \o "-" \o Pad(v.mo, 2) \o "-" \o Pad(v.d, 2) \o "T"
         \o Pad(v.h, 2) \o ":" \o Pad(v.mi, 2) \o ":" \o Pad(v.s, 2)
         \o (IF v.frac < 0 THEN "" ELSE "." \o Pad(v.frac, 3))
         \o (IF v.zs \in {"", "Z"} THEN v.zs ELSE v.zs \o Pad(v.zh, 2) \o ":" \o Pad(v.zm, 2))
    [] v.form = "us" ->
         ToString(v.mo) \o "/" \o ToString(v.d) \o "/" \o Pad(v.y, 4)
         \o (IF v.h < 0 THEN ""
             ELSE " " \o ToString(v.h) \o ":" \o Pad(v.mi, 2)
                  \o (IF v.s < 0 THEN "" ELSE ":" \o Pad(v.s, 2))
                  \o (IF v.ampm = "" THEN "" ELSE " " \o v.ampm))
    [] OTHER -> v.form
Arr(a) == [t |-> "array", a |-> a]

\* an object: its constructor's name and its own properties (a function on their names)
Obj(ctor, f) == [t |-> "object", ctor |-> ctor, f |-> f]
NoProps == [k \in {} |-> Undef]

TypeOf(v) == IF v.t \in {"null", "array", "object"} THEN "object" ELSE v.t

\* v?.k and, on an object, v.k
Get(v, k) == IF v.t = "object" /\ k \in DOMAIN v.f THEN v.f[k] ELSE Undef
\* 'k' in v
Has(v, k) == v.t = "object" /\ k \in DOMAIN v.f
\* {...a, ...b}
Spread(a, b) == [k \in DOMAIN a \cup DOMAIN b |-> IF k \in DOMAIN b THEN b[k] ELSE a[k]]
\* the properties p of a with p.k set to v
With(a, k, v) == [j \in DOMAIN a \cup {k} |-> IF j = k THEN v ELSE a[j]]

ErrorCtors == {"Error", "TypeError", "GaxiosError"}
\* new Error(m)
Error(m) == Obj("Error", [message |-> Str(m)])
TypeError(m) == Obj("TypeError", [message |-> Str(m)])

\* JS truthiness: undefined, null, 0 and "" are falsy
Truthy(v) ==
  CASE v.t \in {"undefined", "null"} -> FALSE
    [] v.t = "number" -> v.n # 0
    [] v.t = "string" -> ~(v.form = "text" /\ v.s = "")
    [] OTHER -> TRUE

\* a || b
Or(a, b) == IF Truthy(a) THEN a ELSE b

\* the text of a value inside a template literal `${v}`, and String(v)
Show(v) ==
  CASE v.t = "undefined" -> "undefined"
    [] v.t = "null" -> "null"
    [] v.t = "number" -> ToString(v.n) \o (IF isInteger(v) THEN "" ELSE "." \o v.frac)
    [] v.t = "string" -> TextOfString(v)
    [] v.t = "object" /\ v.ctor \in ErrorCtors ->
         v.ctor \o ": " \o (IF Get(v, "message").t = "string" /\ Get(v, "message").form = "text"
                             THEN Get(v, "message").s ELSE "")
    [] OTHER -> "[object Object]"

(***************************************************************************)
(* The date/time normaliser.  A computation that may throw returns         *)
(* [ok |-> TRUE, v |-> value] or [ok |-> FALSE, message |-> text].         *)
(***************************************************************************)
Ok(v) == [ok |-> TRUE, v |-> v]
Throw(m) == [ok |-> FALSE, message |-> m]

\* an Invalid Date (its time value is NaN)
InvalidDate == [ok |-> TRUE, nan |-> TRUE]
isNaN(date) == "nan" \in DOMAIN date

\* the fields of an ISO text that the engine accepts: a month in 1..12, a day in 1..31,
\* an hour up to 23 (24:00:00 excepted), a minute and a second up to 59
IsoFieldsOk(s) ==
  /\ s.mo \in 1..12 /\ s.d \in 1..31
  /\ \/ s.h \in 0..23 /\ s.mi \in 0..59 /\ s.s \in 0..59
     \/ s.h = 24 /\ s.mi = 0 /\ s.s = 0 /\ s.frac <= 0
\* a reading that takes every time value written for local time
ZonedInstantLocal(s, written) == UTC(written)

\* the instant of the time value written, read in the zone written: none is local time
ZonedInstant(s, written) ==
  CASE s.zs = "" -> UTC(written)
    [] s.zs = "Z" -> written
    [] s.zs = "+" -> written - (s.zh * 60 + s.zm) * MsPerMinute
    [] s.zs = "-" -> written + (s.zh * 60 + s.zm) * MsPerMinute
\* new Date(s) for a string the ISO pattern matched
NewDateIso(s) ==
  IF ~IsoFieldsOk(s) THEN InvalidDate
  ELSE Ok(ZonedInstant(s, MakeDate(MakeDay(s.y, s.mo - 1, s.d),
                                   MakeTime(s.h, s.mi, s.s, IF s.frac < 0 THEN 0 ELSE s.frac))))

\* the hour of the US pattern after the AM/PM adjustment
AdjustedHour(hour, ampm) ==
  IF ampm = "PM" /\ hour # 12 THEN hour + 12
  ELSE IF ampm = "AM" /\ hour = 12 THEN 0
  ELSE hour

\* parseStringDate: the Date a string denotes when read at clock value clk
parseStringDate(dateStr, clk) ==
  CASE dateStr.form = "iso" -> Ok(dateStr.inst)
    [] dateStr.form = "isotext" -> NewDateIso(dateStr)
    [] dateStr.form = "today" -> Ok(clk)
    [] dateStr.form = "tomorrow" -> Ok(setDate(clk, getDate(clk) + 1))
    [] dateStr.form = "yesterday" -> Ok(setDate(clk, getDate(clk) - 1))
    [] dateStr.form = "us" ->
         Ok(NewDateLocal(dateStr.y, dateStr.mo - 1, dateStr.d,
                         AdjustedHour(IF dateStr.h < 0 THEN 0 ELSE dateStr.h, dateStr.ampm),
                         IF dateStr.h < 0 THEN 0 ELSE dateStr.mi,
                         IF dateStr.s < 0 THEN 0 ELSE dateStr.s))
    [] OTHER -> Throw("Unable to parse date format: \"" \o Show(dateStr) \o "\"")

\* a formatter that hands a string input back as it was written
formatDateEcho(input, date) ==
  IF ~date.ok
    THEN Throw("Failed to format date \"" \o Show(input) \o "\": " \o date.message)
  ELSE IF isNaN(date)
    THEN Throw("Failed to format date \"" \o Show(input) \o "\": Invalid date: " \o Show(input))
  ELSE IF input.t = "string" THEN Ok(input)
  ELSE Ok(IsoStr(date.v))

\* what formatDateTimeForGoogle makes of the Date it obtained
formatDate(input, date) ==
  IF ~date.ok
    THEN Throw("Failed to format date \"" \o Show(input) \o "\": " \o date.message)
  ELSE IF isNaN(date)
    THEN Throw("Failed to format date \"" \o Show(input) \o "\": Invalid date: " \o Show(input))
  ELSE Ok(IsoStr(date.v))

\* formatDateTimeForGoogle: the dateTime string (date.toISOString()) of the input
formatDateTimeForGoogle(input, clk) ==
  IF ~Truthy(input) THEN Throw("Date input is required")
  ELSE formatDate(input,
         CASE input.t = "number" -> Ok(input.n)
           [] input.t = "string" -> parseStringDate(input, clk)
           [] OTHER -> Throw("Unsupported date type: " \o TypeOf(input)))

\* the catch of normalizeDateTime: a failure is thrown again under the parameter's name
rethrowNamed(paramName, formatted) ==
  IF formatted.ok THEN formatted ELSE Throw(paramName \o ": " \o formatted.message)
\* normalizeDateTime(input, paramName)
normalizeDateTime(input, paramName, clk) ==
  rethrowNamed(paramName, formatDateTimeForGoogle(input, clk))

\* the object createGoogleDateTime returns
withTimeZone(formatted) ==
  IF formatted.ok THEN Ok([dateTime |-> formatted.v, timeZone |-> "local"]) ELSE formatted
\* createGoogleDateTime(input): {dateTime, timeZone}
createGoogleDateTime(input, clk) == withTimeZone(formatDateTimeForGoogle(input, clk))

\* isValidGoogleDateTimeFormat(dateTime): the ISO pattern matches and new Date is valid
isValidGoogleDateTimeFormat(dateTime) ==
  CASE dateTime.form = "iso" -> TRUE
    [] dateTime.form = "isotext" -> ~isNaN(NewDateIso(dateTime))
    [] OTHER -> FALSE

(***************************************************************************)
(* Strings: String.prototype.includes and toLowerCase.                     *)
(***************************************************************************)
Includes(s, sub) ==
  \E i \in 1..(Len(s) - Len(sub) + 1) : SubSeq(s, i, i + Len(sub) - 1) = sub

LowerChar(c) ==
  CASE c = "A" -> "a" [] c = "B" -> "b" [] c = "C" -> "c" [] c = "D" -> "d"
    [] c = "E" -> "e" [] c = "F" -> "f" [] c = "G" -> "g" [] c = "H" -> "h"
    [] c = "I" -> "i" [] c = "J" -> "j" [] c = "K" -> "k" [] c = "L" -> "l"
    [] c = "M" -> "m" [] c = "N" -> "n" [] c = "O" -> "o" [] c = "P" -> "p"
    [] c = "Q" -> "q" [] c = "R" -> "r" [] c = "S" -> "s" [] c = "T" -> "t"
    [] c = "U" -> "u" [] c = "V" -> "v" [] c = "W" -> "w" [] c = "X" -> "x"
    [] c = "Y" -> "y" [] c = "Z" -> "z" [] OTHER -> c

RECURSIVE toLowerCase(_)
toLowerCase(s) ==
  IF Len(s) = 0 THEN ""
  ELSE LowerChar(SubSeq(s, 1, 1)) \o toLowerCase(SubSeq(s, 2, Len(s)))

\* the text of a string value (the forms that are date expressions show as Show does)
TextOf(v) == Show(v)

(***************************************************************************)
(* formatGoogleApiError (tools.ts 369-423).  Ok(text), or Throw when the   *)
(* function itself throws a TypeError.                                     *)
(***************************************************************************)
formatGoogleApiError(error) ==
  LET errorDetails == Or(Get(error, "cause"),
                      Or(Get(Get(Get(error, "response"), "data"), "error"),
                      Or(Get(Get(error, "response"), "data"), error)))
      message0 == Or(Get(errorDetails, "message"),
                  Or(Get(errorDetails, "error_description"), Str("Unknown error")))
      code == Or(Get(errorDetails, "code"), Or(Get(errorDetails, "status"),
              Or(Get(error, "code"), Get(error, "status"))))
      errors == Get(errorDetails, "errors")
      hasErrors == Truthy(errors) /\ errors.t = "array" /\ Len(errors.a) > 0
      first == errors.a[1]
      message == IF hasErrors THEN Or(Get(first, "message"), message0) ELSE message0
      reason == Get(first, "reason")
      lower == toLowerCase(TextOf(message))
  IN IF hasErrors /\ first.t \in {"null", "undefined"}
       THEN Throw("Cannot read properties of " \o first.t \o " (reading 'message')")
     ELSE IF hasErrors /\ Truthy(reason) /\ reason = Str("invalid")
       THEN Ok("Invalid parameter value. Please check your date format (use ISO 8601 like \"2024-01-15T14:30:00\") and other parameters")
     ELSE IF hasErrors /\ Truthy(reason) /\ reason = Str("badRequest")
       THEN Ok("Bad request. Please check your date/time format (use ISO 8601 like \"2024-01-15T14:30:00\") and parameter types")
     ELSE IF hasErrors /\ Truthy(reason) /\ reason = Str("notFound")
       THEN Ok("Resource not found. The calendar or event may not exist or may have been deleted")
     ELSE IF hasErrors /\ Truthy(reason) /\ reason = Str("forbidden")
       THEN Ok("Access denied. You may not have permission to access this calendar")
     ELSE IF hasErrors /\ Truthy(reason) /\ reason = Str("unauthorized")
       THEN Ok("Authentication failed. Please re-authenticate with Google Calendar")
     ELSE IF code = Num(400)
       THEN IF message.t # "string"
              THEN Throw("message?.toLowerCase is not a function")
            ELSE IF Includes(lower, "time") \/ Includes(lower, "date")
              THEN Ok("Invalid date/time format. Please use ISO 8601 format like \"2024-01-15T14:30:00\" or \"2024-01-15T14:30:00Z\"")
            ELSE IF Includes(lower, "calendar")
              THEN Ok("Invalid calendar ID. Use \"primary\" for your main calendar or get valid IDs with get_calendars")
            ELSE IF Includes(lower, "event")
              THEN Ok("Invalid event ID. Get valid event IDs from get_events_in_time_range")
            ELSE Ok("Bad request: " \o Show(message) \o ". Please check your parameters (especially date formats - use ISO 8601 like \"2024-01-15T14:30:00\")")
     ELSE IF code = Num(401)
       THEN Ok("Authentication failed. Please re-authenticate with Google Calendar")
     ELSE IF code = Num(403)
       THEN Ok("Permission denied. Check that you have calendar access permissions")
     ELSE IF code = Num(404)
       THEN Ok("Resource not found. The calendar or event may have been deleted")
     ELSE Ok("Google Calendar API error (" \o Show(Or(code, Str("unknown"))) \o "): " \o Show(message))

(***************************************************************************)
(* The calendar service and src/src/google-tools.ts.  The service is the   *)
(* environment: env.resp is its answer to the one operation a dispatch     *)
(* performs, [ok |-> TRUE, items |-> events] or [ok |-> FALSE, error |->   *)
(* the value the client rejects with]; env.clk are the clock's values at   *)
(* the dispatch's successive reads.  A helper returns Ret(value, calls) or *)
(* Raise(thrown value, calls): calls are the service operations it made.   *)
(***************************************************************************)
Ret(v, calls) == [ok |-> TRUE, v |-> v, calls |-> calls]
Raise(e, calls) == [ok |-> FALSE, error |-> e, calls |-> calls]

Bool(b) == [t |-> "boolean", b |-> b]
\* an all-day date "YYYY-MM-DD"; inst is its midnight in UTC
AllDay(i) == [t |-> "string", form |-> "isodate", inst |-> i]

\* new Date(s).getTime() for the timestamps toISOString or the service produced
DateOf(s) == s.inst

\* a timed event and an all-day event as the service returns them
TimedEvent(id, s, e) ==
  Obj("Object", [id |-> Str(id),
                 start |-> Obj("Object", [dateTime |-> IsoStr(s)]),
                 end |-> Obj("Object", [dateTime |-> IsoStr(e)])])
AllDayEvent(id, s, e) ==
  Obj("Object", [id |-> Str(id),
                 start |-> Obj("Object", [date |-> AllDay(s)]),
                 end |-> Obj("Object", [date |-> AllDay(e)])])

\* getEventsInTimeRange (google-tools.ts 114-136); clk: the clock at new Date()
getEventsInTimeRange(options, clk, resp) ==
  LET params == Spread([calendarId |-> Str("primary"), maxResults |-> Num(10),
                        timeMin |-> IsoStr(clk), singleEvents |-> Bool(TRUE),
                        orderBy |-> Str("startTime")], options)
      call == [op |-> "events.list", params |-> params]
  IN IF resp.ok THEN Ret(resp.items, <<call>>) ELSE Raise(resp.error, <<call>>)

\* createEvent (google-tools.ts 141-162)
createEvent(event, options, resp) ==
  LET params == With(Spread([calendarId |-> Str("primary"), sendNotifications |-> Bool(TRUE),
                             sendUpdates |-> Str("all")], options),
                     "requestBody", event)
      call == [op |-> "events.insert", params |-> params]
  IN IF resp.ok THEN Ret(Obj("Object", With(event.f, "id", Str("created"))), <<call>>)
     ELSE Raise(Error("Failed to create event: " \o Show(resp.error)), <<call>>)

\* updateEvent (google-tools.ts 167-190)
updateEvent(eventId, event, resp) ==
  LET params == With(With([calendarId |-> Str("primary"), sendNotifications |-> Bool(TRUE),
                           sendUpdates |-> Str("all")], "eventId", eventId),
                     "requestBody", event)
      call == [op |-> "events.update", params |-> params]
  IN IF resp.ok THEN Ret(Obj("Object", With(event.f, "id", eventId)), <<call>>)
     ELSE Raise(Error("Failed to update event: " \o Show(resp.error)), <<call>>)

\* deleteEvent (google-tools.ts 195-214)
deleteEvent(eventId, options, resp) ==
  LET params == With(Spread([calendarId |-> Str("primary"), sendNotifications |-> Bool(TRUE)],
                            options), "eventId", eventId)
      call == [op |-> "events.delete", params |-> params]
  IN IF resp.ok THEN Ret(Undef, <<call>>)
     ELSE Raise(Error("Failed to delete event: " \o Show(resp.error)), <<call>>)

\* getCalendars (google-tools.ts 219-231)
getCalendars(resp) ==
  LET call == [op |-> "calendarList.list", params |-> NoProps]
  IN IF resp.ok THEN Ret(resp.items, <<call>>)
     ELSE Raise(Error("Failed to fetch calendars: " \o Show(resp.error)), <<call>>)

\* filter of a sequence
RECURSIVE SelectSeqBy(_, _)
SelectSeqBy(s, keep) ==
  IF s = <<>> THEN <<>>
  ELSE (IF keep[Head(s)] THEN <<Head(s)>> ELSE <<>>) \o SelectSeqBy(Tail(s), keep)

\* a filter that also keeps the events touching a boundary of the window
checkForConflictsClosed(startTime, endTime, calendarId, clk, resp) ==
  LET listed == getEventsInTimeRange(
                  [timeMin |-> startTime, timeMax |-> endTime,
                   calendarId |-> IF calendarId = Undef THEN Str("primary") ELSE calendarId,
                   maxResults |-> Num(100)], clk, resp)
      Overlaps(event) ==
        LET eventStart == Or(Get(Get(event, "start"), "dateTime"), Get(Get(event, "start"), "date"))
            eventEnd == Or(Get(Get(event, "end"), "dateTime"), Get(Get(event, "end"), "date"))
        IN IF ~Truthy(eventStart) \/ ~Truthy(eventEnd) THEN FALSE
           ELSE DateOf(startTime) <= DateOf(eventEnd) /\ DateOf(endTime) >= DateOf(eventStart)
      keep == [e \in {listed.v[i] : i \in DOMAIN listed.v} |-> Overlaps(e)]
  IN IF listed.ok THEN Ret(SelectSeqBy(listed.v, keep), listed.calls) ELSE listed

\* checkForConflicts (google-tools.ts 236-263); calendarId defaults to 'primary'
checkForConflicts(startTime, endTime, calendarId, clk, resp) ==
  LET listed == getEventsInTimeRange(
                  [timeMin |-> startTime, timeMax |-> endTime,
                   calendarId |-> IF calendarId = Undef THEN Str("primary") ELSE calendarId,
                   maxResults |-> Num(100)], clk, resp)
      Overlaps(event) ==
        LET eventStart == Or(Get(Get(event, "start"), "dateTime"), Get(Get(event, "start"), "date"))
            eventEnd == Or(Get(Get(event, "end"), "dateTime"), Get(Get(event, "end"), "date"))
        IN IF ~Truthy(eventStart) \/ ~Truthy(eventEnd) THEN FALSE
           ELSE DateOf(startTime) < DateOf(eventEnd) /\ DateOf(endTime) > DateOf(eventStart)
      keep == [e \in {listed.v[i] : i \in DOMAIN listed.v} |-> Overlaps(e)]
  IN IF listed.ok THEN Ret(SelectSeqBy(listed.v, keep), listed.calls) ELSE listed

\* attendees?.map(email => ({ email }))
mapEmails(attendees) ==
  IF attendees.t = "array"
  THEN Arr([i \in DOMAIN attendees.a |-> Obj("Object", [email |-> attendees.a[i]])])
  ELSE Undef

\* a quick event that always lasts an hour
createQuickEventOfAnHour(title, startDateTime, durationMinutes, options, resp) ==
  LET startDate == DateOf(startDateTime)
      endDate == startDate + 60 * MsPerMinute
      event == Obj("Object",
                 [summary |-> title,
                  description |-> Get(options, "description"),
                  location |-> Get(options, "location"),
                  start |-> Obj("Object", [dateTime |-> IsoStr(startDate), timeZone |-> Str("local")]),
                  end |-> Obj("Object", [dateTime |-> IsoStr(endDate), timeZone |-> Str("local")]),
                  attendees |-> mapEmails(Get(options, "attendees"))])
  IN createEvent(event, [calendarId |-> Get(options, "calendarId")], resp)

\* createQuickEvent (google-tools.ts 268-299); durationMinutes defaults to 60
createQuickEvent(title, startDateTime, durationMinutes, options, resp) ==
  LET startDate == DateOf(startDateTime)
      endDate == startDate + durationMinutes * MsPerMinute
      event == Obj("Object",
                 [summary |-> title,
                  description |-> Get(options, "description"),
                  location |-> Get(options, "location"),
                  start |-> Obj("Object", [dateTime |-> IsoStr(startDate), timeZone |-> Str("local")]),
                  end |-> Obj("Object", [dateTime |-> IsoStr(endDate), timeZone |-> Str("local")]),
                  attendees |-> mapEmails(Get(options, "attendees"))])
  IN createEvent(event, [calendarId |-> Get(options, "calendarId")], resp)

\* Array.prototype.sort by start time (stable insertion)
RECURSIVE InsertByStart(_, _)
InsertByStart(sorted, x) ==
  IF sorted = <<>> THEN <<x>>
  ELSE IF x.start < Head(sorted).start THEN <<x>> \o sorted
  ELSE <<Head(sorted)>> \o InsertByStart(Tail(sorted), x)

RECURSIVE SortByStart(_)
SortByStart(s) ==
  IF s = <<>> THEN <<>>
  ELSE InsertByStart(SortByStart(SubSeq(s, 1, Len(s) - 1)), s[Len(s)])

\* the first argument, whichever is smaller
MinFirst(a, b) == a
\* Math.min
Min(a, b) == IF a < b THEN a ELSE b
\* the second argument, whichever is larger
MaxSecond(a, b) == b
Max(a, b) == IF a > b THEN a ELSE b

\* the for loop of findFreeTimeSlots over the sorted busy slots (google-tools.ts 333-345)
RECURSIVE SweepBusy(_, _, _, _, _)
SweepBusy(busySlots, currentTime, end, slotDuration, freeSlots) ==
  IF busySlots = <<>> THEN [currentTime |-> currentTime, freeSlots |-> freeSlots]
  ELSE LET busySlot == Head(busySlots)
           freeEnd == Min(busySlot.start, end)
           found == IF currentTime < busySlot.start /\ freeEnd - currentTime >= slotDuration
                    THEN <<[start |-> IsoStr(currentTime), end |-> IsoStr(freeEnd)]>>
                    ELSE <<>>
       IN SweepBusy(Tail(busySlots), Max(currentTime, busySlot.end), end, slotDuration,
                    freeSlots \o found)

\* findFreeTimeSlots (google-tools.ts 304-358); the defaults are 60 and 'primary'
findFreeTimeSlots(startDate, endDate, slotDurationMinutes, calendarId, clk, resp) ==
  LET listed == getEventsInTimeRange(
                  [timeMin |-> startDate, timeMax |-> endDate,
                   calendarId |-> IF calendarId = Undef THEN Str("primary") ELSE calendarId,
                   maxResults |-> Num(100)], clk, resp)
      timed == [e \in {listed.v[i] : i \in DOMAIN listed.v} |->
                  Truthy(Get(Get(e, "start"), "dateTime")) /\ Truthy(Get(Get(e, "end"), "dateTime"))]
      kept == SelectSeqBy(listed.v, timed)
      busySlots == SortByStart([i \in DOMAIN kept |->
                     [start |-> DateOf(Get(Get(kept[i], "start"), "dateTime")),
                      end |-> DateOf(Get(Get(kept[i], "end"), "dateTime"))]])
      start == DateOf(startDate)
      end == DateOf(endDate)
      \* the default applies to undefined only; null * 60000 is 0
      minutes == CASE slotDurationMinutes = Undef -> 60
                   [] slotDurationMinutes = Null -> 0
                   [] OTHER -> slotDurationMinutes.n
      slotDuration == minutes * MsPerMinute
      swept == SweepBusy(busySlots, start, end, slotDuration, <<>>)
      last == IF swept.currentTime < end /\ end - swept.currentTime >= slotDuration
              THEN <<[start |-> IsoStr(swept.currentTime), end |-> IsoStr(end)]>>
              ELSE <<>>
  IN IF listed.ok THEN Ret(swept.freeSlots \o last, listed.calls) ELSE listed

(***************************************************************************)
(* The validators of src/src/tools.ts 330-366.  min and max are Undef when *)
(* the call gives none.                                                    *)
(***************************************************************************)
validateInteger(value, paramName, min, max) ==
  IF value.t \in {"undefined", "null"} THEN Ok(value)
  ELSE IF ~isInteger(value)
    THEN Throw(paramName \o " must be an integer. Received: " \o TypeOf(value)
               \o " \"" \o Show(value) \o "\"")
  ELSE IF min # Undef /\ value.n < min.n
    THEN Throw(paramName \o " must be at least " \o Show(min) \o ". Received: " \o Show(value))
  ELSE IF max # Undef /\ value.n > max.n
    THEN Throw(paramName \o " must be at most " \o Show(max) \o ". Received: " \o Show(value))
  ELSE Ok(value)

validateString(value, paramName) ==
  IF value.t \notin {"undefined", "null"} /\ TypeOf(value) # "string"
  THEN Throw(paramName \o " must be a string. Received: " \o TypeOf(value)
             \o " \"" \o Show(value) \o "\"")
  ELSE Ok(value)

\* /^[^\s@]+@[^\s@]+\.[^\s@]+$/ on the addresses the model draws
IsEmail(v) == v.t = "string" /\ v.form = "text" /\ v.s \in {"ann@example.com", "bob@example.org"}

validateEmailArray(emails, paramName) ==
  IF emails.t \in {"undefined", "null"} THEN Ok(emails)
  ELSE IF emails.t # "array"
    THEN Throw(paramName \o " must be an array of email addresses. Received: " \o TypeOf(emails))
  ELSE LET bad == {i \in DOMAIN emails.a : ~IsEmail(emails.a[i])}
           i == CHOOSE j \in bad : \A k \in bad : j <= k
       IN IF bad = {} THEN Ok(emails)
          ELSE IF TypeOf(emails.a[i]) # "string"
            THEN Throw(paramName \o "[" \o ToString(i - 1) \o "] must be a string email address. Received: "
                       \o TypeOf(emails.a[i]) \o " \"" \o Show(emails.a[i]) \o "\"")
          ELSE Throw(paramName \o "[" \o ToString(i - 1) \o "] must be a valid email address. Received: \""
                     \o Show(emails.a[i]) \o "\"")

\* the first check of a sequence of checks that throws, or the last one's value
FirstThrow(checks) ==
  LET bad == {i \in DOMAIN checks : ~checks[i].ok}
  IN IF bad = {} THEN checks[Len(checks)]
     ELSE checks[CHOOSE j \in bad : \A k \in bad : j <= k]

(***************************************************************************)
(* handleToolCall (src/src/tools.ts 426-711).  A ToolCall is [id, name,    *)
(* input]; the content of a message is a record tagged by ckind.           *)
(***************************************************************************)
TextC(s) == [ckind |-> "text", text |-> s]
NullC == [ckind |-> "null"]

\* formatCalendarEvents / formatSingleCalendarEvent: the text and the events it renders
formatCalendarEvents(events) ==
  IF events = <<>> THEN TextC("No events found in the specified time range.")
  ELSE [ckind |-> "events", header |-> "", events |-> events]
formatSingleCalendarEvent(header, event) ==
  [ckind |-> "events", header |-> header, events |-> <<event>>]

\* executeBash (tools.ts 278-307): proc is what the spawned process did first
executeBash(command, proc) ==
  CASE proc.ev = "close" ->
         "STDOUT:\n" \o proc.stdout \o "\nSTDERR:\n" \o proc.stderr \o "\nEXIT CODE: " \o ToString(proc.code)
    [] proc.ev = "error" -> "Error executing command: " \o proc.message
    [] proc.ev = "timeout" -> "Error executing command: Command timed out after 10 seconds"

AuthRequired == Error("Google Calendar authentication required")
\* reading a property of toolCall.input when it is null or undefined
NoInput(input) == input.t \in {"null", "undefined"}
InputTypeError(input) == TypeError("Cannot read properties of " \o input.t)

caseBash(input, env) ==
  IF NoInput(input) THEN Raise(InputTypeError(input), <<>>)
  ELSE Ret(TextC(executeBash(Get(input, "command"), env.proc)), <<>>)

caseGetEventsInTimeRange(input, authed, env) ==
  IF ~authed THEN Raise(AuthRequired, <<>>)
  ELSE IF NoInput(input) THEN Raise(InputTypeError(input), <<>>)
  ELSE LET props == IF input.t = "object" THEN input.f ELSE NoProps
           timeMin == IF Truthy(Get(input, "timeMin"))
                      THEN normalizeDateTime(Get(input, "timeMin"), "timeMin", env.clk[1])
                      ELSE Ok(Undef)
           timeMax == IF Truthy(Get(input, "timeMax"))
                      THEN normalizeDateTime(Get(input, "timeMax"), "timeMax", env.clk[2])
                      ELSE Ok(Undef)
           checked == FirstThrow(<<validateInteger(Get(input, "maxResults"), "maxResults", Num(1), Num(100)),
                                   validateString(Get(input, "calendarId"), "calendarId"),
                                   timeMin, timeMax>>)
           withMin == IF Truthy(Get(input, "timeMin")) THEN With(props, "timeMin", timeMin.v) ELSE props
           normalizedInput == IF Truthy(Get(input, "timeMax")) THEN With(withMin, "timeMax", timeMax.v)
                              ELSE withMin
           events == getEventsInTimeRange(normalizedInput, env.clk[3], env.resp)
       IN IF ~checked.ok THEN Raise(Error(checked.message), <<>>)
          ELSE IF events.ok THEN Ret(formatCalendarEvents(events.v), events.calls)
          ELSE events

caseCreateEvent(input, authed, env) ==
  IF ~authed THEN Raise(AuthRequired, <<>>)
  ELSE IF NoInput(input) THEN Raise(InputTypeError(input), <<>>)
  ELSE LET title == Get(input, "title")
           startDateTime == Get(input, "startDateTime")
           endDateTime == Get(input, "endDateTime")
           normalizedStartDateTime == normalizeDateTime(startDateTime, "startDateTime", env.clk[1])
           normalizedEndDateTime == normalizeDateTime(endDateTime, "endDateTime", env.clk[2])
           checked == FirstThrow(<<
             validateString(title, "title"),
             IF ~Truthy(title) THEN Throw("title is required and cannot be empty") ELSE Ok(title),
             normalizedStartDateTime,
             normalizedEndDateTime,
             validateString(Get(input, "description"), "description"),
             validateString(Get(input, "location"), "location"),
             validateString(Get(input, "calendarId"), "calendarId"),
             validateEmailArray(Get(input, "attendees"), "attendees")>>)
           event == Obj("Object",
                      [summary |-> title,
                       description |-> Get(input, "description"),
                       location |-> Get(input, "location"),
                       start |-> Obj("Object", createGoogleDateTime(startDateTime, env.clk[3]).v),
                       end |-> Obj("Object", createGoogleDateTime(endDateTime, env.clk[4]).v),
                       attendees |-> mapEmails(Get(input, "attendees"))])
           created == createEvent(event, [calendarId |-> Get(input, "calendarId")], env.resp)
       IN IF ~checked.ok THEN Raise(Error(checked.message), <<>>)
          ELSE IF DateOf(normalizedStartDateTime.v) >= DateOf(normalizedEndDateTime.v)
            THEN Raise(Error("startDateTime must be before endDateTime"), <<>>)
          ELSE IF created.ok
            THEN Ret(formatSingleCalendarEvent("Event created successfully!", created.v), created.calls)
          ELSE created

caseCreateQuickEvent(input, authed, env) ==
  IF ~authed THEN Raise(AuthRequired, <<>>)
  ELSE IF NoInput(input) THEN Raise(InputTypeError(input), <<>>)
  ELSE LET title == Get(input, "title")
           normalizedQuickStartDateTime ==
             normalizeDateTime(Get(input, "startDateTime"), "startDateTime", env.clk[1])
           checked == FirstThrow(<<
             validateString(title, "title"),
             IF ~Truthy(title) THEN Throw("title is required and cannot be empty") ELSE Ok(title),
             normalizedQuickStartDateTime,
             validateInteger(Get(input, "durationMinutes"), "durationMinutes", Num(1), Undef),
             validateString(Get(input, "description"), "description"),
             validateString(Get(input, "location"), "location"),
             validateString(Get(input, "calendarId"), "calendarId"),
             validateEmailArray(Get(input, "attendees"), "attendees")>>)
           quickEvent == createQuickEvent(title, normalizedQuickStartDateTime.v,
                           Or(Get(input, "durationMinutes"), Num(60)).n, input, env.resp)
       IN IF ~checked.ok THEN Raise(Error(checked.message), <<>>)
          ELSE IF quickEvent.ok
            THEN Ret(formatSingleCalendarEvent("Quick event created successfully!", quickEvent.v),
                     quickEvent.calls)
          ELSE quickEvent

caseUpdateEvent(input, authed, env) ==
  IF ~authed THEN Raise(AuthRequired, <<>>)
  ELSE IF NoInput(input) THEN Raise(InputTypeError(input), <<>>)
  ELSE LET eventId == Get(input, "eventId")
           hasStart == Truthy(Get(input, "startDateTime"))
           hasEnd == Truthy(Get(input, "endDateTime"))
           normalizedUpdateStartDateTime ==
             IF hasStart THEN normalizeDateTime(Get(input, "startDateTime"), "startDateTime", env.clk[1])
             ELSE Ok(Undef)
           normalizedUpdateEndDateTime ==
             IF hasEnd THEN normalizeDateTime(Get(input, "endDateTime"), "endDateTime", env.clk[2])
             ELSE Ok(Undef)
           checked == FirstThrow(<<
             validateString(eventId, "eventId"),
             IF ~Truthy(eventId) THEN Throw("eventId is required and cannot be empty") ELSE Ok(eventId),
             normalizedUpdateStartDateTime,
             normalizedUpdateEndDateTime,
             validateString(Get(input, "title"), "title"),
             validateString(Get(input, "description"), "description"),
             validateString(Get(input, "location"), "location"),
             validateEmailArray(Get(input, "attendees"), "attendees")>>)
           e1 == IF Truthy(Get(input, "title")) THEN [summary |-> Get(input, "title")] ELSE NoProps
           e2 == IF Truthy(Get(input, "description"))
                 THEN With(e1, "description", Get(input, "description")) ELSE e1
           e3 == IF Truthy(Get(input, "location")) THEN With(e2, "location", Get(input, "location")) ELSE e2
           e4 == IF hasStart
                 THEN With(e3, "start", Obj("Object",
                        createGoogleDateTime(Get(input, "startDateTime"), env.clk[3]).v))
                 ELSE e3
           e5 == IF hasEnd
                 THEN With(e4, "end", Obj("Object",
                        createGoogleDateTime(Get(input, "endDateTime"), env.clk[4]).v))
                 ELSE e4
           e6 == IF Truthy(Get(input, "attendees"))
                 THEN With(e5, "attendees", mapEmails(Get(input, "attendees"))) ELSE e5
           updated == updateEvent(eventId, Obj("Object", e6), env.resp)
       IN IF ~checked.ok THEN Raise(Error(checked.message), <<>>)
          ELSE IF Truthy(normalizedUpdateStartDateTime.v) /\ Truthy(normalizedUpdateEndDateTime.v)
                  /\ DateOf(normalizedUpdateStartDateTime.v) >= DateOf(normalizedUpdateEndDateTime.v)
            THEN Raise(Error("startDateTime must be before endDateTime"), <<>>)
          ELSE IF updated.ok
            THEN Ret(formatSingleCalendarEvent("Event updated successfully!", updated.v), updated.calls)
          ELSE updated

caseDeleteEvent(input, authed, env) ==
  IF ~authed THEN Raise(AuthRequired, <<>>)
  ELSE IF NoInput(input) THEN Raise(InputTypeError(input), <<>>)
  ELSE LET eventId == Get(input, "eventId")
           checked == FirstThrow(<<
             validateString(eventId, "eventId"),
             IF ~Truthy(eventId) THEN Throw("eventId is required and cannot be empty") ELSE Ok(eventId),
             validateString(Get(input, "calendarId"), "calendarId")>>)
           deleted == deleteEvent(eventId, [calendarId |-> Get(input, "calendarId")], env.resp)
       IN IF ~checked.ok THEN Raise(Error(checked.message), <<>>)
          ELSE IF deleted.ok THEN Ret(TextC("Event deleted successfully!"), deleted.calls)
          ELSE deleted

caseCheckConflicts(input, authed, env) ==
  IF ~authed THEN Raise(AuthRequired, <<>>)
  ELSE IF NoInput(input) THEN Raise(InputTypeError(input), <<>>)
  ELSE LET normalizedConflictStartTime == normalizeDateTime(Get(input, "startTime"), "startTime", env.clk[1])
           normalizedConflictEndTime == normalizeDateTime(Get(input, "endTime"), "endTime", env.clk[2])
           checked == FirstThrow(<<normalizedConflictStartTime, normalizedConflictEndTime,
                                   validateString(Get(input, "calendarId"), "calendarId")>>)
           conflicts == checkForConflicts(normalizedConflictStartTime.v, normalizedConflictEndTime.v,
                                          Get(input, "calendarId"), env.clk[3], env.resp)
       IN IF ~checked.ok THEN Raise(Error(checked.message), <<>>)
          ELSE IF DateOf(normalizedConflictStartTime.v) >= DateOf(normalizedConflictEndTime.v)
            THEN Raise(Error("startTime must be before endTime"), <<>>)
          ELSE IF ~conflicts.ok THEN conflicts
          ELSE IF Len(conflicts.v) > 0
            THEN Ret([ckind |-> "events",
                      header |-> "Found " \o ToString(Len(conflicts.v)) \o " conflicts:",
                      events |-> conflicts.v], conflicts.calls)
          ELSE Ret(TextC("No conflicts found in the specified time range."), conflicts.calls)

caseFindFreeTime(input, authed, env) ==
  IF ~authed THEN Raise(AuthRequired, <<>>)
  ELSE IF NoInput(input) THEN Raise(InputTypeError(input), <<>>)
  ELSE LET normalizedFreeStartDate == normalizeDateTime(Get(input, "startDate"), "startDate", env.clk[1])
           normalizedFreeEndDate == normalizeDateTime(Get(input, "endDate"), "endDate", env.clk[2])
           checked == FirstThrow(<<normalizedFreeStartDate, normalizedFreeEndDate,
             validateInteger(Get(input, "slotDurationMinutes"), "slotDurationMinutes", Num(1), Undef),
             validateString(Get(input, "calendarId"), "calendarId")>>)
           freeSlots == findFreeTimeSlots(normalizedFreeStartDate.v, normalizedFreeEndDate.v,
                          Get(input, "slotDurationMinutes"), Get(input, "calendarId"),
                          env.clk[3], env.resp)
       IN IF ~checked.ok THEN Raise(Error(checked.message), <<>>)
          ELSE IF DateOf(normalizedFreeStartDate.v) >= DateOf(normalizedFreeEndDate.v)
            THEN Raise(Error("startDate must be before endDate"), <<>>)
          ELSE IF ~freeSlots.ok THEN freeSlots
          ELSE IF Len(freeSlots.v) > 0
            THEN Ret([ckind |-> "slots",
                      header |-> "Found " \o ToString(Len(freeSlots.v)) \o " free time slots:",
                      slots |-> freeSlots.v], freeSlots.calls)
          ELSE Ret(TextC("No free time slots found in the specified range."), freeSlots.calls)

\* get_calendars that asks the service whether or not a handle was supplied
caseGetCalendarsUnguarded(authed, env) ==
  LET calendars == getCalendars(env.resp)
  IN IF calendars.ok
     THEN Ret([ckind |-> "calendars", header |-> "Available calendars:", calendars |-> calendars.v],
              calendars.calls)
     ELSE calendars

caseGetCalendars(authed, env) ==
  IF ~authed THEN Raise(AuthRequired, <<>>)
  ELSE LET calendars == getCalendars(env.resp)
       IN IF calendars.ok
          THEN Ret([ckind |-> "calendars", header |-> "Available calendars:", calendars |-> calendars.v],
                   calendars.calls)
          ELSE calendars

\* the try block: the switch on toolCall.name
toolSwitch(toolCall, authed, env) ==
  CASE toolCall.name = "bash" -> caseBash(toolCall.input, env)
    [] toolCall.name = "get_events_in_time_range" -> caseGetEventsInTimeRange(toolCall.input, authed, env)
    [] toolCall.name = "create_event" -> caseCreateEvent(toolCall.input, authed, env)
    [] toolCall.name = "create_quick_event" -> caseCreateQuickEvent(toolCall.input, authed, env)
    [] toolCall.name = "update_event" -> caseUpdateEvent(toolCall.input, authed, env)
    [] toolCall.name = "delete_event" -> caseDeleteEvent(toolCall.input, authed, env)
    [] toolCall.name = "check_conflicts" -> caseCheckConflicts(toolCall.input, authed, env)
    [] toolCall.name = "find_free_time" -> caseFindFreeTime(toolCall.input, authed, env)
    [] toolCall.name = "get_calendars" -> caseGetCalendars(authed, env)
    [] OTHER -> Raise(Error("Unsupported tool: " \o toolCall.name), <<>>)

\* a tool-result message that carries the tool's name where the request's id belongs
toolMessageNamed(toolCall, content) ==
  [role |-> "tool", tool_call_id |-> toolCall.name, content |-> content]

\* the tool-result message of a dispatch
toolMessage(toolCall, content) ==
  [role |-> "tool", tool_call_id |-> toolCall.id, content |-> content]

\* the catch block (tools.ts 672-710): Ok(errorMsg), or Throw when the block itself throws
catchBlock(toolCall, error) ==
  LET message == Get(error, "message")
      byShape == Has(error, "code") \/ Has(error, "response") \/ Has(error, "cause")
                 \/ (error.t = "object" /\ error.ctor = "GaxiosError")
      includesThrows == ~byShape /\ Truthy(message) /\ message.t \notin {"string", "array"}
      isGoogleApiError ==
        Truthy(error) /\ TypeOf(error) = "object"
        /\ (byShape \/ (Truthy(message) /\ message.t = "string" /\ Includes(TextOf(message), "googleapis")))
      formatted == formatGoogleApiError(error)
      prefix == "Error executing " \o toolCall.name \o ": "
  IN IF Truthy(error) /\ TypeOf(error) = "object" /\ includesThrows
       THEN Throw("message.includes is not a function")
     ELSE IF isGoogleApiError
       THEN IF formatted.ok THEN Ok(prefix \o formatted.v) ELSE formatted
     ELSE IF error.t = "object" /\ error.ctor \in ErrorCtors
       THEN Ok(prefix \o Show(message))
     ELSE Ok(prefix \o Show(error))

\* what handleToolCall settles with once its try block has ended as tried
settleToolCall(toolCall, tried) ==
  LET caught == catchBlock(toolCall, tried.error)
  IN IF tried.ok
       THEN [threw |-> FALSE, message |-> toolMessage(toolCall, tried.v), calls |-> tried.calls]
     ELSE IF caught.ok
       THEN [threw |-> FALSE, message |-> toolMessage(toolCall, TextC(caught.v)), calls |-> tried.calls]
     ELSE [threw |-> TRUE, message |-> None, calls |-> tried.calls]

\* handleToolCall(toolCall, auth) in environment env: the message it resolves with, or
\* threw = TRUE when the promise rejects; calls are the service operations it performed
handleToolCall(toolCall, authed, env) ==
  settleToolCall(toolCall, toolSwitch(toolCall, authed, env))

(***************************************************************************)
(* JSON.parse and JSON.stringify on the argument texts the streams carry.  *)
(* The fragments are pieces of the texts {} and {"command":"ls"} and the   *)
(* text null; every other concatenation of them is no JSON text.           *)
(***************************************************************************)
JSONParse(text) ==
  CASE text = "{}" -> Ok(Obj("Object", NoProps))
    [] text = "{\"command\":\"ls\"}" -> Ok(Obj("Object", [command |-> Str("ls")]))
    [] text = "null" -> Ok(Null)
    [] OTHER -> Throw("SyntaxError: Unexpected token in JSON")

JSONStringify(v) ==
  CASE v = Null -> "null"
    [] v = Obj("Object", NoProps) -> "{}"
    [] v = Obj("Object", [command |-> Str("ls")]) -> "{\"command\":\"ls\"}"

(***************************************************************************)
(* LLM.call's aggregation of the stream (cli-helpers.ts 672-743).  A chunk *)
(* is [content, tool_calls, finish_reason]; a tool-call delta is [index,   *)
(* id, name, arguments], index a number or Undef, the texts "" when the    *)
(* delta carries none.                                                     *)
(***************************************************************************)
Delta(index, id, name, arguments) ==
  [index |-> index, id |-> id, name |-> name, arguments |-> arguments]
Chunk(content, tool_calls, finish_reason) ==
  [content |-> content, tool_calls |-> tool_calls, finish_reason |-> finish_reason]

\* the aggregation state: LLM.call's locals
AggState(text, calls, current, errs) ==
  [outputText |-> text, toolCalls |-> calls, currentToolCall |-> current, parseErrors |-> errs]

\* a finalization whose parse failure discards the calls collected so far
finalizeDropAll(st) ==
  LET cur == st.currentToolCall
      parsed == JSONParse(cur.arguments)
  IN IF cur = None THEN st
     ELSE IF parsed.ok
       THEN [st EXCEPT !.toolCalls = Append(@, [id |-> cur.id, name |-> cur.name, input |-> parsed.v])]
     ELSE [st EXCEPT !.toolCalls = <<>>, !.parseErrors = Append(@, cur.arguments)]

\* "Finalize previous tool call": push the parsed call, or log the parse error
finalize(st) ==
  LET cur == st.currentToolCall
      parsed == JSONParse(cur.arguments)
  IN IF cur = None THEN st
     ELSE IF parsed.ok
       THEN [st EXCEPT !.toolCalls = Append(@, [id |-> cur.id, name |-> cur.name, input |-> parsed.v])]
     ELSE [st EXCEPT !.parseErrors = Append(@, cur.arguments)]

\* one pass of the loop over delta.tool_calls
applyDelta(st, d) ==
  LET cur == st.currentToolCall
  IN IF d.index = Undef THEN st
     ELSE IF cur = None \/ d.index # cur.index
       THEN [finalize(st) EXCEPT !.currentToolCall =
               [index |-> d.index, id |-> d.id, name |-> d.name, arguments |-> d.arguments]]
     ELSE [st EXCEPT !.currentToolCall =
               [index |-> cur.index, id |-> cur.id \o d.id, name |-> cur.name \o d.name,
                arguments |-> cur.arguments \o d.arguments]]

RECURSIVE applyDeltas(_, _)
applyDeltas(st, ds) ==
  IF ds = <<>> THEN st ELSE applyDeltas(applyDelta(st, Head(ds)), Tail(ds))

\* the body of the for-await loop on one chunk, up to the finish_reason test
applyChunk(st, chunk) ==
  applyDeltas([st EXCEPT !.outputText = @ \o chunk.content], chunk.tool_calls)

Finishes(chunk) == chunk.finish_reason \in {"stop", "tool_calls"}

\* an assistant message that records the text only
assistantMessageTextOnly(text, calls) ==
  [role |-> "assistant", content |-> IF text = "" THEN NullC ELSE TextC(text), tool_calls |-> <<>>]

\* the assistant message LLM.call builds (cli-helpers.ts 748-760)
assistantMessage(text, calls) ==
  [role |-> "assistant",
   content |-> IF text = "" THEN NullC ELSE TextC(text),
   tool_calls |-> [i \in DOMAIN calls |->
                     [id |-> calls[i].id, type |-> "function",
                      function |-> [name |-> calls[i].name,
                                    arguments |-> JSONStringify(calls[i].input)]]]]

userMessage(answer) == [role |-> "user", content |-> TextC(answer)]
systemMessage(prompt) == [role |-> "system", content |-> TextC(prompt)]

\* the message list of a completion request (cli-helpers.ts 663-666)
requestMessages(prompt, history) == <<systemMessage(prompt)>> \o history

\* an insertion at the front of history
unshiftAll(history, content) == content \o history

\* this.messages.push(...content)
pushAll(history, content) == history \o content

(***************************************************************************)
(* Environments of a dispatch.                                             *)
(***************************************************************************)
\* the clock's values at four successive reads, starting from t
ClockReads(t) ==
  {c \in [1..4 -> t..(t + MaxClockStep)] : \A i \in 1..3 : c[i] <= c[i + 1]}

\* the clock standing still at t
StillClock(t) == [i \in 1..4 |-> t]

ProcClose == [ev |-> "close", stdout |-> "out", stderr |-> "", code |-> 0]
ProcTimeout == [ev |-> "timeout"]
ProcError == [ev |-> "error", message |-> "spawn ENOENT"]

RespOk(items) == [ok |-> TRUE, items |-> items]
RespError(error) == [ok |-> FALSE, error |-> error]

\* values the service client rejects with
NotFound404 ==
  Obj("GaxiosError", [message |-> Str("Not Found"), code |-> Num(404)])
Unauthenticated401 ==
  Obj("GaxiosError", [message |-> Str("Invalid Credentials"), code |-> Num(401)])
BadRequestDate ==
  Obj("GaxiosError", [message |-> Str("Invalid time value"), code |-> Num(400)])
\* a 400 whose message is not a string
BadRequestCoded ==
  Obj("GaxiosError", [message |-> Obj("Object", [detail |-> Str("bad")]), code |-> Num(400)])
\* an error body whose errors list holds null
NullErrorsEntry ==
  Obj("GaxiosError", [message |-> Str("Bad Request"), code |-> Num(400), errors |-> Arr(<<Null>>)])
\* a rejection whose message is a number, carrying no code, response or cause
NumericMessage == Obj("Object", [message |-> Num(503)])
NetworkError == Error("socket hang up")

(***************************************************************************)
(* SpecDispatch: one handleToolCall on an arbitrary request, in an         *)
(* arbitrary environment.                                                  *)
(***************************************************************************)
\* the session's clock at start: 1970-01-11T00:00:00Z, so that every instant of the
\* model stays below 2^31
StartOfClock == 10 * MsPerDay
\* a host whose local time is UTC throughout
HostUTC == Zone(0, 0, 0)

\* an input mapping: the keys of f whose value is not Undef
MkInput(f) == Obj("Object", [k \in {j \in DOMAIN f : f[j] # Undef} |-> f[k]])

\* what a request may carry where a date/time is expected
DateValues ==
  {Undef, Null, Str(""), Str("next blue moon"), Num(0), Num(StartOfClock + 3 * MsPerHour),
   IsoStr(StartOfClock + MsPerHour), IsoStr(StartOfClock + 2 * MsPerHour),
   Literal("today"), Literal("tomorrow")}

ToolCallOf(id, name, input) == [id |-> id, name |-> name, input |-> input]

RangeRequests ==
  {ToolCallOf("call_1", "get_events_in_time_range", MkInput([timeMin |-> s, timeMax |-> e])) :
     s \in DateValues, e \in DateValues}
CreateRequests ==
  {ToolCallOf("call_1", "create_event",
              MkInput([title |-> Str("Sync"), startDateTime |-> s, endDateTime |-> e])) :
     s \in DateValues, e \in DateValues}
UpdateRequests ==
  {ToolCallOf("call_1", "update_event",
              MkInput([eventId |-> Str("ev1"), startDateTime |-> s, endDateTime |-> e])) :
     s \in DateValues, e \in DateValues}
ConflictRequests ==
  {ToolCallOf("call_1", "check_conflicts", MkInput([startTime |-> s, endTime |-> e])) :
     s \in DateValues, e \in DateValues}
FreeTimeRequests ==
  {ToolCallOf("call_1", "find_free_time",
              MkInput([startDate |-> s, endDate |-> e, slotDurationMinutes |-> d])) :
     s \in DateValues, e \in DateValues, d \in {Undef, Num(30)}}
QuickRequests ==
  {ToolCallOf("call_1", "create_quick_event",
              MkInput([title |-> t, startDateTime |-> s, durationMinutes |-> d])) :
     t \in {Undef, Str("Sync")}, s \in DateValues,
     d \in {Undef, Null, Num(0), Num(-5), Num(30), Fraction(1, "5"), Str("30")}}
OtherRequests ==
  {ToolCallOf("call_1", "delete_event", MkInput([eventId |-> i])) : i \in {Undef, Str(""), Str("ev1")}}
  \cup {ToolCallOf("call_1", n, i) :
          n \in {"bash", "get_calendars", "delete_event", "no_such_tool"},
          i \in {Null, MkInput([command |-> Str("ls")])}}

Requests ==
  RangeRequests \cup CreateRequests \cup UpdateRequests \cup ConflictRequests
  \cup FreeTimeRequests \cup QuickRequests \cup OtherRequests

\* the service's answers
Busy1 == TimedEvent("ev1", StartOfClock + MsPerHour, StartOfClock + MsPerHour + 30 * MsPerMinute)
Answers ==
  {RespOk(<<>>), RespOk(<<Busy1>>),
   RespOk(<<AllDayEvent("ev2", StartOfClock, StartOfClock + MsPerDay), Busy1>>)}
Rejections ==
  {RespError(e) : e \in {NotFound404, Unauthenticated401, BadRequestDate, BadRequestCoded,
                         NullErrorsEntry, NumericMessage, NetworkError, Str("boom")}}

\* the environments that differ for the request: only the shell tool spawns a process,
\* a calendar tool refused for want of authentication reads neither the clock nor the
\* service, and a rejection is rendered without reading the clock
DispatchEnvs(toolCall, authed, t) ==
  IF toolCall.name = "bash"
    THEN {[clk |-> StillClock(t), resp |-> RespOk(<<>>), proc |-> p] :
            p \in {ProcClose, ProcTimeout, ProcError}}
  ELSE IF ~authed
    THEN {[clk |-> StillClock(t), resp |-> RespOk(<<>>), proc |-> ProcClose]}
  ELSE {[clk |-> c, resp |-> r, proc |-> ProcClose] : c \in ClockReads(t), r \in Answers}
       \cup {[clk |-> StillClock(t), resp |-> r, proc |-> ProcClose] : r \in Rejections}

DispInit ==
  /\ tz = HostUTC
  /\ request \in Requests
  /\ auth \in BOOLEAN
  /\ now = StartOfClock
  /\ pc = "ready"
  /\ outcome = None
  /\ backendCalls = <<>>
  /\ msg = <<>> /\ messages = <<>> /\ systemPrompt = "" /\ lastRequest = <<>>
  /\ inflight = 0 /\ turns = 0 /\ chunks = 0 /\ stream = <<>> /\ textIn = <<>>
  /\ outputText = "" /\ sink = <<>> /\ toolCalls = <<>> /\ currentToolCall = None
  /\ parseErrors = <<>> /\ running = {} /\ results = <<>>

\* the outcome of the dispatch is recorded
Settled(env, out) ==
  /\ outcome' = [threw |-> out.threw, message |-> out.message, env |-> env]
  /\ backendCalls' = out.calls

\* handleToolCall(request, auth) runs to its end in environment env
Dispatch(env) ==
  /\ pc = "ready"
  /\ Settled(env, handleToolCall(request, auth, env))
  /\ now' = env.clk[4]
  /\ pc' = "done"
  /\ UNCHANGED <<tz, request, auth, msg, messages, systemPrompt, lastRequest, inflight, turns,
                 chunks, stream, textIn, outputText, sink, toolCalls, currentToolCall,
                 parseErrors, running, results>>

DispNext == \E env \in DispatchEnvs(request, auth, now) : Dispatch(env)

SpecDispatch == DispInit /\ [][DispNext]_vars

(***************************************************************************)
(* Properties of one dispatch (SpecDispatch).                              *)
(***************************************************************************)
StartsWith(s, p) == Len(s) >= Len(p) /\ SubSeq(s, 1, Len(p)) = p

\* the tool result is an error string of the catch block
IsErrorResult(m) ==
  m # None /\ m.content.ckind = "text" /\ StartsWith(m.content.text, "Error executing ")

\* the names of the start and end parameters of the tools that take both
StartKey(name) ==
  CASE name = "get_events_in_time_range" -> "timeMin"
    [] name = "find_free_time" -> "startDate"
    [] name = "check_conflicts" -> "startTime"
    [] OTHER -> "startDateTime"
EndKey(name) ==
  CASE name = "get_events_in_time_range" -> "timeMax"
    [] name = "find_free_time" -> "endDate"
    [] name = "check_conflicts" -> "endTime"
    [] OTHER -> "endDateTime"
WindowTools ==
  {"get_events_in_time_range", "create_event", "update_event", "check_conflicts", "find_free_time"}

\* both instants are supplied and, read at the instant t, start does not precede end
StartNotBeforeEnd(toolCall, t) ==
  LET s == formatDateTimeForGoogle(Get(toolCall.input, StartKey(toolCall.name)), t)
      e == formatDateTimeForGoogle(Get(toolCall.input, EndKey(toolCall.name)), t)
  IN /\ Has(toolCall.input, StartKey(toolCall.name))
     /\ Has(toolCall.input, EndKey(toolCall.name))
     /\ s.ok /\ e.ok
     /\ DateOf(s.v) >= DateOf(e.v)

\* C4: handleToolCall never throws or rejects: for every tool name, input mapping and
\* backend failure it returns a tool-result message carrying the request's id whose
\* content is the tool's result or an error string.
C4_NeverThrows ==
  pc = "done" =>
    /\ ~outcome.threw
    /\ outcome.message.role = "tool"
    /\ outcome.message.tool_call_id = request.id

\* C9: for every tool taking a start and an end instant, a dispatch in which both are
\* supplied and start does not strictly precede end returns a validation error and
\* performs no calendar-service call.
C9_WindowOrderChecked ==
  (pc = "done" /\ auth /\ request.name \in WindowTools /\ StartNotBeforeEnd(request, StartOfClock)) =>
    /\ backendCalls = <<>>
    /\ ~outcome.threw
    /\ IsErrorResult(outcome.message)

\* C10: update_event with startDateTime and endDateTime both supplied and startDateTime
\* later than or equal to endDateTime returns a validation-error tool result and invokes
\* no calendar-service operation.
C10_UpdateOrderChecked ==
  (pc = "done" /\ auth /\ request.name = "update_event" /\ StartNotBeforeEnd(request, StartOfClock)) =>
    /\ backendCalls = <<>>
    /\ ~outcome.threw
    /\ IsErrorResult(outcome.message)

\* the event handed to the calendar service by the dispatch, and its start and end
SentBody == backendCalls[1].params.requestBody
SentAt(key) == DateOf(Get(Get(SentBody, key), "dateTime"))
\* the instant the ordering validation of the dispatch saw for a parameter
CheckedAt(param, read) ==
  DateOf(normalizeDateTime(Get(request.input, param), param, outcome.env.clk[read]).v)

\* C33: in create_event and update_event the start and end handed to the calendar
\* service are the instants the start-before-end validation of that dispatch checked,
\* for every accepted input shape, the clock-relative ones included; so every event
\* sent to the service has its start strictly before its end.
C33_SentInstantsWereChecked ==
  (/\ pc = "done"
   /\ request.name \in {"create_event", "update_event"}
   /\ backendCalls # <<>>
   /\ Has(SentBody, "start") /\ Has(SentBody, "end")) =>
    /\ SentAt("start") = CheckedAt("startDateTime", 1)
    /\ SentAt("end") = CheckedAt("endDateTime", 2)
    /\ SentAt("start") < SentAt("end")

\* durationMinutes as given: absent (undefined or null), or a value
DurationGiven == Get(request.input, "durationMinutes")
DurationAbsent == DurationGiven \in {Undef, Null}
DurationValid == isInteger(DurationGiven) /\ DurationGiven.n >= 1
\* the other parameters of the quick event pass their checks
QuickStartAccepted ==
  /\ Truthy(Get(request.input, "title"))
  /\ normalizeDateTime(Get(request.input, "startDateTime"), "startDateTime", outcome.env.clk[1]).ok

CalendarTools ==
  {"get_events_in_time_range", "create_event", "create_quick_event", "update_event",
   "delete_event", "check_conflicts", "find_free_time", "get_calendars"}
RequiredParams(name) ==
  CASE name = "create_event" -> {"title", "startDateTime", "endDateTime"}
    [] name = "create_quick_event" -> {"title", "startDateTime"}
    [] name \in {"update_event", "delete_event"} -> {"eventId"}
    [] name = "check_conflicts" -> {"startTime", "endTime"}
    [] name = "find_free_time" -> {"startDate", "endDate"}
    [] OTHER -> {}
StringParams(name) ==
  CASE name = "get_events_in_time_range" -> {"calendarId", "timeMin", "timeMax"}
    [] name = "create_event" ->
         {"title", "startDateTime", "endDateTime", "description", "location", "calendarId"}
    [] name = "create_quick_event" ->
         {"title", "startDateTime", "description", "location", "calendarId"}
    [] name = "update_event" ->
         {"eventId", "title", "startDateTime", "endDateTime", "description", "location"}
    [] name = "delete_event" -> {"eventId", "calendarId"}
    [] name = "check_conflicts" -> {"startTime", "endTime", "calendarId"}
    [] name = "find_free_time" -> {"startDate", "endDate", "calendarId"}
    [] OTHER -> {}
\* the declared integers with their minimum and maximum (None: not declared)
IntegerParams(name) ==
  CASE name = "get_events_in_time_range" -> [maxResults |-> [minimum |-> 1, maximum |-> 100]]
    [] name = "create_quick_event" -> [durationMinutes |-> [minimum |-> 1, maximum |-> None]]
    [] name = "find_free_time" -> [slotDurationMinutes |-> [minimum |-> 1, maximum |-> None]]
    [] OTHER -> <<>>
ArrayParams(name) ==
  IF name \in {"create_event", "create_quick_event", "update_event"} THEN {"attendees"} ELSE {}

\* the parameters of the request whose value breaks the declaration
ContractViolations(toolCall) ==
  LET input == toolCall.input
      name == toolCall.name
  IN {k \in RequiredParams(name) : ~Truthy(Get(input, k))}
     \cup {k \in StringParams(name) : Get(input, k).t \notin {"undefined", "null", "string"}}
     \cup {k \in DOMAIN IntegerParams(name) :
             /\ Has(input, k)
             /\ \/ Get(input, k).t # "number"
                \/ Get(input, k).n < IntegerParams(name)[k].minimum
                \/ /\ IntegerParams(name)[k].maximum # None
                   /\ Get(input, k).n > IntegerParams(name)[k].maximum}
     \cup {k \in ArrayParams(name) :
             /\ Has(input, k)
             /\ \/ Get(input, k).t # "array"
                \/ \E i \in DOMAIN Get(input, k).a : ~IsEmail(Get(input, k).a[i])}

\* C11: for every calendar tool, an argument that violates its declared contract (a
\* missing or empty required field, a non-integer or out-of-range integer, a non-string
\* value for a declared string parameter, the date/time parameters included, a bad
\* attendees value) makes the dispatch return an error naming that field before any
\* calendar-service call is made; no such value is coerced into an accepted one.
C11_ContractEnforced ==
  (/\ pc = "done" /\ auth
   /\ request.name \in CalendarTools
   /\ request.input.t = "object"
   /\ ContractViolations(request) # {}) =>
    /\ backendCalls = <<>>
    /\ ~outcome.threw
    /\ IsErrorResult(outcome.message)
    /\ \E k \in ContractViolations(request) : Includes(outcome.message.content.text, k)

\* C12: without an authenticated calendar handle, dispatching any calendar tool, whatever
\* its arguments, returns the authentication-required error as a tool result, performs no
\* calendar-service call and does not reject; the shell tool is still executed.
C12_AuthRequiredSurfaced ==
  (pc = "done" /\ ~auth) =>
    /\ request.name \in CalendarTools =>
         /\ backendCalls = <<>>
         /\ ~outcome.threw
         /\ outcome.message.role = "tool"
         /\ outcome.message.tool_call_id = request.id
         /\ outcome.message.content =
              TextC("Error executing " \o request.name \o ": Google Calendar authentication required")
    /\ (request.name = "bash" /\ request.input.t = "object") =>
         /\ ~outcome.threw
         /\ outcome.message.content =
              TextC(executeBash(Get(request.input, "command"), outcome.env.proc))
C12_Witness ==
  /\ pc = "done" /\ ~auth
  /\ request.name = "create_event"
  /\ Get(request.input, "startDateTime") = IsoStr(StartOfClock + MsPerHour)
  /\ Get(request.input, "endDateTime") = IsoStr(StartOfClock + 2 * MsPerHour)
  /\ outcome.env.resp = RespOk(<<>>)
  /\ IsErrorResult(outcome.message)

\* a value the Normalizer returns: the toISOString text of an instant
IsNormalized(v) == v.t = "string" /\ v.form = "iso"
\* the date/time values a calendar-service call carries
DateTimesOf(call) ==
  CASE call.op = "events.list" ->
         {call.params[k] : k \in {"timeMin", "timeMax"} \cap DOMAIN call.params}
    [] call.op \in {"events.insert", "events.update"} ->
         {Get(call.params.requestBody, k).f.dateTime :
            k \in {j \in {"start", "end"} : Has(call.params.requestBody, j)}}
    [] OTHER -> {}

\* C13: for every dispatch and every input mapping, each date/time value handed to a
\* calendar-service operation (timeMin/timeMax of list, start/end of insert and update)
\* is an output of the Normalizer; no raw input value reaches the service.
C13_OnlyNormalizedCrosses ==
  \A i \in DOMAIN backendCalls : \A v \in DateTimesOf(backendCalls[i]) : IsNormalized(v)

(***************************************************************************)
(* SpecNorm: normalizeDateTime and isValidGoogleDateTimeFormat applied to  *)
(* one string, on a host in one of a few time zones, at one clock value.   *)
(* request holds the string and the parameter's name, outcome what the     *)
(* function returned.                                                      *)
(***************************************************************************)
\* hosts: UTC, a zone five and a half hours ahead, a zone whose clocks go forward from
\* 02:00 to 03:00 local time on 1970-01-13, and one whose clocks go back from 02:00 to 01:00
Ahead == Zone(0, 330 * MsPerMinute, 330 * MsPerMinute)
Forward == Zone(12 * MsPerDay + 7 * MsPerHour, 0 - 5 * MsPerHour, 0 - 4 * MsPerHour)
Back == Zone(12 * MsPerDay + 6 * MsPerHour, 0 - 4 * MsPerHour, 0 - 5 * MsPerHour)
Hosts == {HostUTC, Ahead, Forward, Back}

\* clock values: 1970-01-11T00:00Z, 1970-01-12T07:30Z (02:30 in Forward, a day before
\* the skipped hour), 1970-01-14T06:30Z (02:30 in Forward, a day after it)
NormClocks == {StartOfClock, 11 * MsPerDay + 450 * MsPerMinute, 13 * MsPerDay + 390 * MsPerMinute}

\* the strings: ISO datetimes and US dates as written, fields in and out of range
IsoTexts ==
  {IsoText(1970, ymd[1], ymd[2], hms[1], hms[2], hms[3], frac, z[1], z[2], z[3]) :
     ymd \in {<<1, 12>>, <<1, 13>>, <<0, 12>>, <<13, 12>>, <<1, 0>>, <<1, 32>>},
     hms \in {<<2, 30, 0>>, <<14, 30, 15>>, <<24, 0, 0>>, <<25, 0, 0>>, <<10, 60, 0>>, <<10, 0, 60>>},
     frac \in {-1, 0, 500},
     z \in {<<"", 0, 0>>, <<"Z", 0, 0>>, <<"+", 5, 30>>, <<"-", 8, 0>>}}
UsTexts ==
  {UsText(mdy[1], mdy[2], mdy[3], -1, 0, -1, "") :
     mdy \in {<<1, 12, 1970>>, <<1, 13, 1970>>, <<0, 12, 1970>>, <<13, 12, 1969>>,
              <<1, 0, 1970>>, <<12, 32, 1969>>}}
  \cup
  {UsText(mdy[1], mdy[2], mdy[3], hm[1], hm[2], s, ampm) :
     mdy \in {<<1, 12, 1970>>, <<1, 13, 1970>>, <<0, 12, 1970>>, <<13, 12, 1969>>,
              <<1, 0, 1970>>, <<12, 32, 1969>>},
     hm \in {<<0, 0>>, <<1, 0>>, <<2, 30>>, <<12, 0>>, <<13, 5>>, <<25, 0>>, <<10, 75>>},
     s \in {-1, 45, 75},
     ampm \in {"", "AM", "PM"}}
NormInputs ==
  IsoTexts \cup UsTexts
  \cup {Literal("today"), Literal("tomorrow"), Literal("yesterday"),
        Str("next blue moon"), IsoStr(StartOfClock + MsPerHour)}

NormInit ==
  /\ request \in [input : NormInputs, paramName : {"startDateTime"}]
  /\ tz \in Hosts
  /\ now \in NormClocks
  /\ pc = "ready"
  /\ outcome = None
  /\ auth = FALSE
  /\ backendCalls = <<>>
  /\ msg = <<>> /\ messages = <<>> /\ systemPrompt = "" /\ lastRequest = <<>>
  /\ inflight = 0 /\ turns = 0 /\ chunks = 0 /\ stream = <<>> /\ textIn = <<>>
  /\ outputText = "" /\ sink = <<>> /\ toolCalls = <<>> /\ currentToolCall = None
  /\ parseErrors = <<>> /\ running = {} /\ results = <<>>

\* normalizeDateTime(request.input, request.paramName) returns or throws
Normalize ==
  /\ pc = "ready"
  /\ outcome' = normalizeDateTime(request.input, request.paramName, now)
  /\ pc' = "normalized"
  /\ UNCHANGED <<tz, request, auth, now, backendCalls, msg, messages, systemPrompt, lastRequest,
                 inflight, turns, chunks, stream, textIn, outputText, sink, toolCalls,
                 currentToolCall, parseErrors, running, results>>

\* isValidGoogleDateTimeFormat(request.input) returns
Validate ==
  /\ pc = "ready"
  /\ outcome' = [valid |-> isValidGoogleDateTimeFormat(request.input)]
  /\ pc' = "validated"
  /\ UNCHANGED <<tz, request, auth, now, backendCalls, msg, messages, systemPrompt, lastRequest,
                 inflight, turns, chunks, stream, textIn, outputText, sink, toolCalls,
                 currentToolCall, parseErrors, running, results>>

\* the text date.toISOString() writes for the instant of v, field by field
AsWritten(v) ==
  IsoText(CivilFromDays(Day(v.inst)).year, CivilFromDays(Day(v.inst)).month,
          CivilFromDays(Day(v.inst)).date,
          TimeWithinDay(v.inst) \div MsPerHour,
          (TimeWithinDay(v.inst) % MsPerHour) \div MsPerMinute,
          (TimeWithinDay(v.inst) % MsPerMinute) \div MsPerSecond,
          TimeWithinDay(v.inst) % MsPerSecond, "Z", 0, 0)

\* normalizeDateTime is applied to the text it returned, at a later reading of the clock
Renormalize ==
  /\ pc = "normalized"
  /\ outcome.ok
  /\ \E clk \in NormClocks :
       /\ clk >= now
       /\ now' = clk
       /\ outcome' = [ok |-> TRUE, v |-> outcome.v,
                      again |-> normalizeDateTime(AsWritten(outcome.v), request.paramName, clk)]
  /\ pc' = "renormalized"
  /\ UNCHANGED <<tz, request, auth, backendCalls, msg, messages, systemPrompt, lastRequest,
                 inflight, turns, chunks, stream, textIn, outputText, sink, toolCalls,
                 currentToolCall, parseErrors, running, results>>

NormNext == Normalize \/ Validate \/ Renormalize

SpecNorm == NormInit /\ [][NormNext]_vars

\* the days of month m (1..12) of year y
DaysInMonth(y, m) ==
  DaysFromCivil(IF m = 12 THEN y + 1 ELSE y, IF m = 12 THEN 1 ELSE m + 1, 1) - DaysFromCivil(y, m, 1)
\* an ISO datetime as written whose calendar and clock fields are valid
CanonicalIso(v) ==
  /\ v.t = "string" /\ v.form = "isotext"
  /\ v.mo \in 1..12 /\ v.d \in 1..DaysInMonth(v.y, v.mo)
  /\ v.h \in 0..23 /\ v.mi \in 0..59 /\ v.s \in 0..59

\* C14 (as stated): for every canonical ISO 8601 datetime string with valid calendar fields
\* (with or without fractional seconds, with or without Z or a numeric offset),
\* normalizeDateTime returns the input string unchanged and isValidGoogleDateTimeFormat
\* returns true.
C14_IsoUnchanged ==
  /\ (pc = "normalized" /\ CanonicalIso(request.input)) =>
       outcome.ok /\ TextOfString(outcome.v) = TextOfString(request.input)
  /\ (pc = "validated" /\ CanonicalIso(request.input)) => outcome.valid

\* C14 (amended): for every such string normalizeDateTime returns the UTC text
\* YYYY-MM-DDTHH:mm:ss.sssZ of the instant the string denotes (a string without zone read
\* as local time), which is the input itself exactly when the input is written with
\* three fractional digits and Z; isValidGoogleDateTimeFormat returns true.
C14_IsoSameInstant ==
  /\ (pc = "normalized" /\ CanonicalIso(request.input)) =>
       /\ outcome.ok
       /\ IsNormalized(outcome.v)
       /\ DateOf(outcome.v) = NewDateIso(request.input).v
       /\ (TextOfString(outcome.v) = TextOfString(request.input))
            <=> (request.input.frac >= 0 /\ request.input.zs = "Z")
  /\ (pc = "validated" /\ CanonicalIso(request.input)) => outcome.valid
C14_Witness ==
  /\ pc = "normalized" /\ CanonicalIso(request.input)
  /\ request.input.zs = "" /\ request.input.frac < 0 /\ tz = Ahead
  /\ outcome.ok
  /\ TextOfString(outcome.v) # TextOfString(request.input)

\* an input that names an instant by itself: an ISO text with Z or a numeric offset
Absolute(v) == v.t = "string" /\ v.form = "isotext" /\ v.zs # ""
\* the instant such a text names: its civil fields counted in UTC, less its offset
InstantOf(v) ==
  DaysFromCivil(v.y, v.mo, v.d) * MsPerDay + v.h * MsPerHour + v.mi * MsPerMinute
  + v.s * MsPerSecond + (IF v.frac < 0 THEN 0 ELSE v.frac)
  - (CASE v.zs = "+" -> 1 [] v.zs = "-" -> -1 [] OTHER -> 0) * (v.zh * 60 + v.zm) * MsPerMinute

\* C37: normalizeDateTime is idempotent on its own output: applied to the text it
\* returned for an accepted input it returns that text again, and for an input that
\* names an absolute instant the text returned denotes that same instant.
C37_NormalizeIdempotent ==
  /\ pc = "renormalized" =>
       /\ outcome.again.ok
       /\ IsNormalized(outcome.again.v)
       /\ TextOfString(outcome.again.v) = TextOfString(outcome.v)
       /\ Absolute(request.input) => DateOf(outcome.again.v) = InstantOf(request.input)
  /\ (pc = "normalized" /\ outcome.ok /\ Absolute(request.input)) =>
       DateOf(outcome.v) = InstantOf(request.input)
\* 14:30:15 at +05:30, written without fraction, on a host ahead of UTC
C37_Witness ==
  /\ pc = "renormalized"
  /\ tz = Ahead
  /\ request.input = IsoText(1970, 1, 12, 14, 30, 15, -1, "+", 5, 30)
  /\ TextOfString(outcome.v) = "1970-01-12T09:00:15.000Z"
  /\ TextOfString(outcome.again.v) = "1970-01-12T09:00:15.000Z"

\* C15: for every input of the form M/D/Y with an optional H:MM[:SS][AM|PM] suffix, the
\* normalized instant has, in local time, exactly the month, day and year written in the
\* input and the hour written in the input after AM/PM adjustment (12AM gives 0, 12PM
\* gives 12, 1PM gives 13).
C15_UsFieldsKept ==
  (pc = "normalized" /\ request.input.form = "us") =>
    /\ outcome.ok
    /\ getMonth(DateOf(outcome.v)) + 1 = request.input.mo
    /\ getDate(DateOf(outcome.v)) = request.input.d
    /\ getFullYear(DateOf(outcome.v)) = request.input.y
    /\ getHours(DateOf(outcome.v)) =
         (IF request.input.h < 0 THEN 0
          ELSE IF request.input.ampm = "PM" /\ request.input.h # 12 THEN request.input.h + 12
          ELSE IF request.input.ampm = "AM" /\ request.input.h = 12 THEN 0
          ELSE request.input.h)

\* a string of a recognized shape one of whose fields is out of range
InvalidFields(v) ==
  \/ v.form = "isotext" /\ ~CanonicalIso(v)
  \/ /\ v.form = "us"
     /\ \/ v.mo \notin 1..12
        \/ v.d < 1
        \/ v.mo \in 1..12 /\ v.d > DaysInMonth(v.y, v.mo)
        \/ v.h >= 0 /\ AdjustedHour(v.h, v.ampm) \notin 0..23
        \/ v.h >= 0 /\ v.mi \notin 0..59
        \/ v.s > 59

\* C16: normalizeDateTime fails with an error carrying the field name and the raw value
\* whenever the input matches no recognized shape or matches a recognized shape with
\* invalid field values (month outside 1..12, day not in that month, hour outside 0..23,
\* minute or second outside 0..59); it never returns a timestamp for such an input.
C16_InvalidRejected ==
  (pc = "normalized" /\ (request.input.form = "text" \/ InvalidFields(request.input))) =>
    /\ ~outcome.ok
    /\ Includes(outcome.message, request.paramName)
    /\ Includes(outcome.message, TextOfString(request.input))

\* the local time a day after (k = 1) or before (k = -1) the local time of t is one the
\* host's clocks skip
Skipped(t, k) ==
  /\ LocalTime(t) + k * MsPerDay - tz.before >= tz.at
  /\ LocalTime(t) + k * MsPerDay - tz.after < tz.at

\* C17 (as stated): normalizeDateTime("tomorrow") evaluated at instant T returns the instant
\* whose local calendar date is exactly one day after T's date and whose time-of-day
\* equals T's time-of-day; likewise "yesterday" is one day before and "today" is T itself.
C17_RelativeDayExact ==
  (pc = "normalized" /\ request.input.form \in {"today", "tomorrow", "yesterday"}) =>
    /\ outcome.ok
    /\ Day(LocalTime(DateOf(outcome.v))) - Day(LocalTime(now)) =
         (CASE request.input.form = "tomorrow" -> 1
            [] request.input.form = "yesterday" -> -1
            [] OTHER -> 0)
    /\ TimeWithinDay(LocalTime(DateOf(outcome.v))) = TimeWithinDay(LocalTime(now))
    /\ request.input.form = "today" => DateOf(outcome.v) = now

\* C17 (amended): the result's local date is one day after (before) T's date and its local
\* time-of-day equals T's, except that when the host's clocks skip that local time on
\* that date the result is later by the skipped amount; "today" is T itself.
C17_RelativeDayLocal ==
  (pc = "normalized" /\ request.input.form \in {"today", "tomorrow", "yesterday"}) =>
    /\ outcome.ok
    /\ request.input.form = "today" => DateOf(outcome.v) = now
    /\ request.input.form = "tomorrow" =>
         LocalTime(DateOf(outcome.v)) =
           LocalTime(now) + MsPerDay + (IF Skipped(now, 1) THEN tz.after - tz.before ELSE 0)
    /\ request.input.form = "yesterday" =>
         LocalTime(DateOf(outcome.v)) =
           LocalTime(now) - MsPerDay + (IF Skipped(now, -1) THEN tz.after - tz.before ELSE 0)
C17_Witness ==
  /\ pc = "normalized" /\ request.input.form = "tomorrow"
  /\ tz = Forward /\ Skipped(now, 1)
  /\ outcome.ok
  /\ getDate(DateOf(outcome.v)) = getDate(now) + 1
  /\ getHours(DateOf(outcome.v)) = getHours(now) + 1

(***************************************************************************)
(* SpecWindow: find_free_time and check_conflicts dispatched over a query  *)
(* window of 1970-01-11, against every short list of events the window     *)
(* query may answer with.                                                  *)
(***************************************************************************)
\* events in one answer of the service
MaxEvents == 2

\* the instant of h:m on the day of StartOfClock
At(h, m) == StartOfClock + h * MsPerHour + m * MsPerMinute
Windows ==
  {<<At(9, 0), At(17, 0)>>, <<At(10, 0), At(11, 0)>>, <<At(10, 0), At(13, 0)>>,
   <<At(12, 0), At(17, 0)>>, <<At(9, 0), At(12, 0)>>}
WindowRequests ==
  {ToolCallOf("call_1", "find_free_time",
              MkInput([startDate |-> IsoStr(w[1]), endDate |-> IsoStr(w[2]),
                       slotDurationMinutes |-> d])) :
     w \in Windows, d \in {Undef, Num(30), Num(60), Num(120)}}
  \cup
  {ToolCallOf("call_1", "check_conflicts",
              MkInput([startTime |-> IsoStr(w[1]), endTime |-> IsoStr(w[2])])) : w \in Windows}

\* the events a calendar may hold that day
WindowEvents ==
  {TimedEvent("e1", At(12, 0), At(13, 0)), TimedEvent("e2", At(10, 30), At(10, 45)),
   TimedEvent("e3", At(11, 0), At(12, 0)), TimedEvent("e4", At(9, 0), At(10, 0)),
   TimedEvent("e5", At(10, 0), At(13, 0)), TimedEvent("e6", At(13, 0), At(17, 0)),
   AllDayEvent("e7", StartOfClock, StartOfClock + MsPerDay)}
EventLists == UNION {[1..n -> WindowEvents] : n \in 0..MaxEvents}

WinInit ==
  /\ request \in WindowRequests
  /\ auth = TRUE
  /\ tz = HostUTC
  /\ now = StartOfClock
  /\ pc = "ready"
  /\ outcome = None
  /\ backendCalls = <<>>
  /\ msg = <<>> /\ messages = <<>> /\ systemPrompt = "" /\ lastRequest = <<>>
  /\ inflight = 0 /\ turns = 0 /\ chunks = 0 /\ stream = <<>> /\ textIn = <<>>
  /\ outputText = "" /\ sink = <<>> /\ toolCalls = <<>> /\ currentToolCall = None
  /\ parseErrors = <<>> /\ running = {} /\ results = <<>>

\* the window of the request and the events the query answered with
QueryStart == DateOf(Get(request.input, StartKey(request.name)))
QueryEnd == DateOf(Get(request.input, EndKey(request.name)))
Answered == outcome.env.resp.items
\* start and end of an event, timed or all-day
StartOf(e) == DateOf(Or(Get(Get(e, "start"), "dateTime"), Get(Get(e, "start"), "date")))
EndOf(e) == DateOf(Or(Get(Get(e, "end"), "dateTime"), Get(Get(e, "end"), "date")))
\* the busy intervals: the answered events that carry a start and an end time
BusyOf(items) ==
  {<<StartOf(items[i]), EndOf(items[i])>> :
     i \in {j \in DOMAIN items : Has(Get(items[j], "start"), "dateTime")
                                 /\ Has(Get(items[j], "end"), "dateTime")}}
\* [a, b) lies in the window and meets no busy interval
FreeIn(a, b, busy) ==
  /\ QueryStart <= a /\ a < b /\ b <= QueryEnd
  /\ \A iv \in busy : iv[2] <= a \/ iv[1] >= b
\* the maximal such intervals
MaximalGaps(busy) ==
  LET points == {QueryStart, QueryEnd} \cup {iv[1] : iv \in busy} \cup {iv[2] : iv \in busy}
  IN {g \in points \X points :
        /\ FreeIn(g[1], g[2], busy)
        /\ \A h \in points \X points :
             (FreeIn(h[1], h[2], busy) /\ h[1] <= g[1] /\ g[2] <= h[2]) => h = g}
\* the slots and the events a tool result lists
SlotsOf(m) == IF m.content.ckind = "slots" THEN m.content.slots ELSE <<>>
EventsOf(m) == IF m.content.ckind = "events" THEN m.content.events ELSE <<>>

\* events.list over [timeMin, timeMax] of a calendar holding contents: the events
\* that end after timeMin and start before timeMax
ListedIn(contents, timeMin, timeMax) ==
  SelectSeq(contents, LAMBDA e : EndOf(e) > timeMin /\ StartOf(e) < timeMax)

\* the check_conflicts request over a slot
ConflictsOver(slot) ==
  ToolCallOf("call_2", "check_conflicts", MkInput([startTime |-> slot.start, endTime |-> slot.end]))

\* the dispatch of toolCall in environment env replaces the request and its outcome
Redispatch(toolCall, env) ==
  /\ request' = toolCall
  /\ Settled(env, handleToolCall(toolCall, auth, env))

\* check_conflicts is dispatched over slot i of the find_free_time result, against the
\* same calendar
RecheckSlot(i) ==
  /\ pc = "done"
  /\ request.name = "find_free_time"
  /\ i \in DOMAIN SlotsOf(outcome.message)
  /\ Redispatch(ConflictsOver(SlotsOf(outcome.message)[i]),
                [clk |-> StillClock(now),
                 resp |-> RespOk(ListedIn(Answered, DateOf(SlotsOf(outcome.message)[i].start),
                                          DateOf(SlotsOf(outcome.message)[i].end))),
                 proc |-> ProcClose])
  /\ pc' = "rechecked"
  /\ UNCHANGED <<tz, auth, now, msg, messages, systemPrompt, lastRequest, inflight, turns,
                 chunks, stream, textIn, outputText, sink, toolCalls, currentToolCall,
                 parseErrors, running, results>>

\* the dispatch runs with the window query answered by items
WinNext ==
  \/ \E items \in EventLists :
       Dispatch([clk |-> StillClock(now), resp |-> RespOk(items), proc |-> ProcClose])
  \/ \E i \in 1..(MaxEvents + 1) : RecheckSlot(i)

SpecWindow == WinInit /\ [][WinNext]_vars

\* C35: find_free_time and check_conflicts agree on what is busy: for the same calendar
\* contents, timed and all-day events alike, check_conflicts over a slot returned by
\* find_free_time reports no conflict.
C35_FreeSlotHasNoConflict ==
  pc = "rechecked" =>
    /\ ~outcome.threw
    /\ ~IsErrorResult(outcome.message)
    /\ EventsOf(outcome.message) = <<>>


\* C18: for every query window and every set of existing events, find_free_time returns
\* exactly the maximal gaps of the window not covered by any busy interval (the events
\* carrying a start and an end time) whose length is at least the minimum slot duration
\* (60 minutes when omitted), in ascending order, including the gap before the first busy
\* interval and the gap after the last, each clamped to the window.
C18_FreeSlotsAreMaximalGaps ==
  (pc = "done" /\ request.name = "find_free_time") =>
    LET slots == SlotsOf(outcome.message)
        minutes == IF Has(request.input, "slotDurationMinutes")
                   THEN Get(request.input, "slotDurationMinutes").n ELSE 60
    IN /\ ~outcome.threw /\ ~IsErrorResult(outcome.message)
       /\ {<<DateOf(slots[i].start), DateOf(slots[i].end)>> : i \in DOMAIN slots} =
            {g \in MaximalGaps(BusyOf(Answered)) : g[2] - g[1] >= minutes * MsPerMinute}
       /\ \A i \in DOMAIN slots : \A j \in DOMAIN slots :
            i < j => DateOf(slots[i].end) <= DateOf(slots[j].start)
\* the window [09:00,17:00] with one busy interval [12:00,13:00] and minimum 60 minutes
C18_Witness ==
  /\ pc = "done" /\ request.name = "find_free_time"
  /\ QueryStart = At(9, 0) /\ QueryEnd = At(17, 0)
  /\ Get(request.input, "slotDurationMinutes") = Num(60)
  /\ Answered = <<TimedEvent("e1", At(12, 0), At(13, 0))>>
  /\ SlotsOf(outcome.message) =
       <<[start |-> IsoStr(At(9, 0)), end |-> IsoStr(At(12, 0))],
         [start |-> IsoStr(At(13, 0)), end |-> IsoStr(At(17, 0))]>>

\* the slots of a find_free_time result as pairs of instants, in the order returned
SlotSpans(m) == [i \in DOMAIN SlotsOf(m) |-> <<DateOf(SlotsOf(m)[i].start), DateOf(SlotsOf(m)[i].end)>>]
\* the minimum slot duration of the request, in milliseconds
MinimumOf(input) ==
  (IF Has(input, "slotDurationMinutes") THEN Get(input, "slotDurationMinutes").n ELSE 60)
    * MsPerMinute

\* C34: every slot returned by find_free_time lies inside the query window, is at least
\* as long as the minimum slot duration and overlaps no timed busy event; the slots are
\* in ascending order and pairwise disjoint.
C34_SlotsAreFreeAndOrdered ==
  (pc = "done" /\ request.name = "find_free_time") =>
    /\ \A i \in DOMAIN SlotSpans(outcome.message) :
         /\ QueryStart <= SlotSpans(outcome.message)[i][1]
         /\ SlotSpans(outcome.message)[i][2] <= QueryEnd
         /\ SlotSpans(outcome.message)[i][2] - SlotSpans(outcome.message)[i][1]
              >= MinimumOf(request.input)
         /\ \A k \in DOMAIN Answered :
              Has(Get(Answered[k], "start"), "dateTime") =>
                \/ EndOf(Answered[k]) <= SlotSpans(outcome.message)[i][1]
                \/ StartOf(Answered[k]) >= SlotSpans(outcome.message)[i][2]
    /\ \A i \in DOMAIN SlotSpans(outcome.message) :
         \A j \in DOMAIN SlotSpans(outcome.message) :
           i < j => SlotSpans(outcome.message)[i][2] <= SlotSpans(outcome.message)[j][1]
\* the window [09:00,12:00] against [10:30,10:45] and an event that starts after it
C34_Witness ==
  /\ pc = "done" /\ request.name = "find_free_time"
  /\ QueryStart = At(9, 0) /\ QueryEnd = At(12, 0)
  /\ Get(request.input, "slotDurationMinutes") = Num(60)
  /\ Answered = <<TimedEvent("e6", At(13, 0), At(17, 0)), TimedEvent("e2", At(10, 30), At(10, 45))>>
  /\ SlotSpans(outcome.message) = <<<<At(9, 0), At(10, 30)>>, <<At(10, 45), At(12, 0)>>>>

\* C19: check_conflicts returns exactly those events returned by the window query for
\* which existingStart < queryEnd and existingEnd > queryStart: an event strictly inside
\* the window is reported, an event that only touches a window boundary is not.
C19_ConflictsAreOverlaps ==
  (pc = "done" /\ request.name = "check_conflicts") =>
    /\ ~outcome.threw /\ ~IsErrorResult(outcome.message)
    /\ EventsOf(outcome.message) =
         SelectSeq(Answered, LAMBDA e : StartOf(e) < QueryEnd /\ EndOf(e) > QueryStart)
\* the window [10:00,11:00] against [10:30,10:45] and the touching [11:00,12:00]
C19_Witness ==
  /\ pc = "done" /\ request.name = "check_conflicts"
  /\ QueryStart = At(10, 0) /\ QueryEnd = At(11, 0)
  /\ Answered = <<TimedEvent("e2", At(10, 30), At(10, 45)), TimedEvent("e3", At(11, 0), At(12, 0))>>
  /\ EventsOf(outcome.message) = <<TimedEvent("e2", At(10, 30), At(10, 45))>>

(***************************************************************************)
(* SpecBash: one dispatch of the shell tool, event by event.  now is the   *)
(* time (ms) since the spawn; running holds "process" while the child has  *)
(* not closed, "timer" while the timeout is armed and "sigterm" once        *)
(* process.kill() has signalled the child; outputText is the accumulated   *)
(* stdout.  A timer that is due runs before time moves on.                 *)
(***************************************************************************)
\* setTimeout(..., 10000)
TimeoutMs == 10000
\* the step of the clock, and how long the model watches a dispatch
TickMs == TimeoutMs \div 4
MaxElapsed == TimeoutMs + 2 * TickMs
\* stdout chunks of one command
MaxData == 2

BashCommands == {"ls", "sleep 60", "false", "trap '' TERM; sleep 60"}
\* the commands whose shell ignores SIGTERM
IgnoresTerm(command) == command = Str("trap '' TERM; sleep 60")

BashInit ==
  /\ request \in {ToolCallOf("call_1", "bash", MkInput([command |-> Str(c)])) : c \in BashCommands}
  /\ auth \in BOOLEAN
  /\ tz = HostUTC
  /\ now = 0
  /\ pc = "ready"
  /\ outcome = None
  /\ running = {}
  /\ outputText = ""
  /\ chunks = 0
  /\ backendCalls = <<>>
  /\ msg = <<>> /\ messages = <<>> /\ systemPrompt = "" /\ lastRequest = <<>>
  /\ inflight = 0 /\ turns = 0 /\ stream = <<>> /\ textIn = <<>>
  /\ sink = <<>> /\ toolCalls = <<>> /\ currentToolCall = None
  /\ parseErrors = <<>> /\ results = <<>>

\* a resolve whose every call settles the dispatch anew
ResolveAnew(proc) ==
  /\ outcome' = [threw |-> FALSE, at |-> now,
                 message |-> toolMessage(request,
                               TextC(executeBash(Get(request.input, "command"), proc)))]
  /\ pc' = "resolved"

\* resolve(text): the first call settles the dispatch, later calls change nothing
Resolve(proc) ==
  IF outcome = None
  THEN /\ outcome' = [threw |-> FALSE, at |-> now,
                      message |-> toolMessage(request,
                                    TextC(executeBash(Get(request.input, "command"), proc)))]
       /\ pc' = "resolved"
  ELSE UNCHANGED <<outcome, pc>>

\* spawn('bash', ['-c', command]) and setTimeout
Spawn ==
  /\ pc = "ready"
  /\ pc' = "waiting"
  /\ running' = {"process", "timer"}
  /\ UNCHANGED <<tz, request, auth, now, outcome, outputText, chunks, backendCalls, msg, messages,
                 systemPrompt, lastRequest, inflight, turns, stream, textIn, sink, toolCalls,
                 currentToolCall, parseErrors, results>>

\* process.stdout.on('data')
StdoutData ==
  /\ "process" \in running
  /\ chunks < MaxData
  /\ outputText' = outputText \o "out"
  /\ chunks' = chunks + 1
  /\ UNCHANGED <<tz, request, auth, now, outcome, pc, running, backendCalls, msg, messages,
                 systemPrompt, lastRequest, inflight, turns, stream, textIn, sink, toolCalls,
                 currentToolCall, parseErrors, results>>

\* time passes, but not past a timer that is due
Tick ==
  /\ pc # "ready"
  /\ now < MaxElapsed
  /\ ~("timer" \in running /\ now >= TimeoutMs)
  /\ now' = now + TickMs
  /\ UNCHANGED <<tz, request, auth, outcome, pc, running, outputText, chunks, backendCalls, msg,
                 messages, systemPrompt, lastRequest, inflight, turns, stream, textIn, sink,
                 toolCalls, currentToolCall, parseErrors, results>>

\* the setTimeout callback that signals the child and does not resolve
TimerFiresKillOnly ==
  /\ "timer" \in running
  /\ now >= TimeoutMs
  /\ running' = (running \ {"timer"}) \cup {"sigterm"}
  /\ UNCHANGED <<tz, request, auth, now, outcome, pc, outputText, chunks, backendCalls, msg, messages,
                 systemPrompt, lastRequest, inflight, turns, stream, textIn, sink, toolCalls,
                 currentToolCall, parseErrors, results>>

\* the setTimeout callback: process.kill() signals the child, resolve(timeout message)
TimerFires ==
  /\ "timer" \in running
  /\ now >= TimeoutMs
  /\ running' = (running \ {"timer"}) \cup {"sigterm"}
  /\ Resolve(ProcTimeout)
  /\ UNCHANGED <<tz, request, auth, now, outputText, chunks, backendCalls, msg, messages,
                 systemPrompt, lastRequest, inflight, turns, stream, textIn, sink, toolCalls,
                 currentToolCall, parseErrors, results>>

\* process.on('close'): clearTimeout, resolve(output and exit code)
Close(code) ==
  /\ "process" \in running
  /\ running' = {}
  /\ Resolve([ev |-> "close", stdout |-> outputText, stderr |-> "", code |-> code])
  /\ UNCHANGED <<tz, request, auth, now, outputText, chunks, backendCalls, msg, messages,
                 systemPrompt, lastRequest, inflight, turns, stream, textIn, sink, toolCalls,
                 currentToolCall, parseErrors, results>>

\* the child dies of the signal, unless its shell ignores it: process.on('close') runs,
\* and its resolve comes second and changes nothing
Killed ==
  /\ {"process", "sigterm"} \subseteq running
  /\ ~IgnoresTerm(Get(request.input, "command"))
  /\ outcome # None
  /\ running' = {}
  /\ UNCHANGED <<tz, request, auth, now, outcome, pc, outputText, chunks, backendCalls, msg,
                 messages, systemPrompt, lastRequest, inflight, turns, stream, textIn, sink,
                 toolCalls, currentToolCall, parseErrors, results>>

\* process.on('error') when the child could not be spawned: clearTimeout, resolve(error)
SpawnFails ==
  /\ pc = "waiting" /\ now = 0 /\ chunks = 0
  /\ "process" \in running
  /\ running' = {}
  /\ Resolve(ProcError)
  /\ UNCHANGED <<tz, request, auth, now, outputText, chunks, backendCalls, msg, messages,
                 systemPrompt, lastRequest, inflight, turns, stream, textIn, sink, toolCalls,
                 currentToolCall, parseErrors, results>>

BashNext ==
  \/ Spawn
  \/ StdoutData
  \/ Tick
  \/ TimerFires
  \/ Killed
  \/ \E code \in {0, 1} : Close(code)
  \/ SpawnFails

\* the event loop runs the steps of the dispatch and its timers; the child owes nothing
SpecBash ==
  BashInit /\ [][BashNext]_vars /\ WF_vars(Spawn) /\ WF_vars(Tick) /\ WF_vars(TimerFires)

\* C20: every shell tool dispatch eventually returns a result: if the command has not
\* exited 10 seconds after it was spawned, the dispatch returns the timeout message at
\* that point instead of waiting for the command, so a shell command can never block the
\* loop indefinitely.
C20_BashAlwaysReturns ==
  /\ <>(pc = "resolved" /\ outcome # None)
  /\ [](now > TimeoutMs => pc = "resolved")
  /\ [](pc = "resolved" =>
          /\ outcome.at <= TimeoutMs
          /\ outcome.message.role = "tool" /\ outcome.message.tool_call_id = request.id
          /\ "process" \in running =>
               /\ outcome.at = TimeoutMs
               /\ outcome.message.content =
                    TextC("Error executing command: Command timed out after 10 seconds"))
C20_Witness ==
  /\ pc = "resolved" /\ "process" \in running /\ now > TimeoutMs
  /\ request.input = MkInput([command |-> Str("sleep 60")])
  /\ outcome.message.content = TextC("Error executing command: Command timed out after 10 seconds")

\* C21: whatever the command does, once a shell dispatch has returned the timeout result
\* the spawned subprocess is no longer running: it has been terminated by the time the
\* result is delivered to the loop.
C21_KilledOnTimeout ==
  (/\ pc = "resolved"
   /\ outcome.message.content =
        TextC("Error executing command: Command timed out after 10 seconds"))
    => "process" \notin running

\* the texts a dispatch can settle with
TimeoutText == "Error executing command: Command timed out after 10 seconds"
SpawnErrorText == "Error executing command: spawn ENOENT"
ClosedText(out, code) ==
  "STDOUT:\n" \o out \o "\nSTDERR:\n\nEXIT CODE: " \o ToString(code)

\* C31: executeBash settles exactly once and never rejects: with the captured output and
\* the exit code (zero or not) when the process closes first, with the spawn error when
\* the process errors first, with the timeout message when the timer fires first; the
\* first of the three events fixes the result, later events do not change it, and when
\* close or error comes first the timer is cancelled, so that no kill is sent.
C31_FirstEventSettles ==
  /\ [][outcome # None => outcome' = outcome]_vars
  /\ [][(outcome = None /\ outcome' # None) =>
          /\ outcome'.threw = FALSE
          /\ outcome'.message.role = "tool"
          /\ IF "sigterm" \in running'
               THEN /\ "timer" \in running /\ "timer" \notin running'
                    /\ now >= TimeoutMs
                    /\ outcome'.message.content = TextC(TimeoutText)
             ELSE /\ running' = {}
                  /\ \/ \E code \in {0, 1} :
                          outcome'.message.content = TextC(ClosedText(outputText, code))
                     \/ /\ outcome'.message.content = TextC(SpawnErrorText)
                        /\ outputText = ""]_vars
  /\ []((outcome # None /\ outcome.message.content # TextC(TimeoutText)) =>
          running = {})
  /\ [](pc = "resolved" <=> outcome # None)
\* the process closed with a non-zero status after the timeout had settled the dispatch
C31_Witness ==
  /\ pc = "resolved"
  /\ outcome.message.content = TextC(TimeoutText)
  /\ running = {}
  /\ IgnoresTerm(Get(request.input, "command"))
  /\ outputText # ""

(***************************************************************************)
(* SpecFormat: formatGoogleApiError applied to one rejection of the         *)
(* calendar service.  request describes the rejection: the status code,    *)
(* the message, the reason of the first entry of its errors list and where *)
(* the client library put them.                                            *)
(***************************************************************************)
FormatStatuses == {Undef, Num(400), Num(401), Num(403), Num(404), Num(500)}
FormatMessages ==
  {Undef, Str("Invalid time value"), Str("Bad start Date"), Str("Unknown Calendar"),
   Str("Event gone"), Str("Backend Error"), Num(503), Obj("Object", [detail |-> Str("bad")])}
\* "" is a rejection without an errors list, "null" one whose list holds null
FormatReasons ==
  {"", "null", "invalid", "badRequest", "notFound", "forbidden", "unauthorized",
   "rateLimitExceeded"}
\* the details on the error itself, under response.data.error, or with status for code
FormatShapes == {"plain", "body", "status"}

ErrorsOf(reason) ==
  CASE reason = "" -> Undef
    [] reason = "null" -> Arr(<<Null>>)
    [] OTHER -> Arr(<<Obj("Object", [reason |-> Str(reason)])>>)

\* the value the service client rejects with
RejectionOf(d) ==
  CASE d.shape = "plain" ->
         Obj("GaxiosError",
             MkInput([code |-> d.status, message |-> d.message, errors |-> ErrorsOf(d.reason)]).f)
    [] d.shape = "status" ->
         Obj("GaxiosError",
             MkInput([status |-> d.status, message |-> d.message, errors |-> ErrorsOf(d.reason)]).f)
    [] d.shape = "body" ->
         Obj("GaxiosError",
             [message |-> Str("Request failed"),
              response |-> Obj("Object", [data |-> Obj("Object",
                [error |-> MkInput([code |-> d.status, message |-> d.message,
                                    errors |-> ErrorsOf(d.reason)])])])])

FormatInit ==
  /\ request \in [shape : FormatShapes, status : FormatStatuses, message : FormatMessages,
                  reason : FormatReasons]
  /\ auth = TRUE
  /\ tz = HostUTC
  /\ now = StartOfClock
  /\ pc = "ready"
  /\ outcome = None
  /\ backendCalls = <<>>
  /\ msg = <<>> /\ messages = <<>> /\ systemPrompt = "" /\ lastRequest = <<>>
  /\ inflight = 0 /\ turns = 0 /\ chunks = 0 /\ stream = <<>> /\ textIn = <<>>
  /\ outputText = "" /\ sink = <<>> /\ toolCalls = <<>> /\ currentToolCall = None
  /\ parseErrors = <<>> /\ running = {} /\ results = <<>>

\* formatGoogleApiError(error) returns or throws
Formatted(error, formatted) ==
  outcome' = [error |-> error, formatted |-> formatted]

Format ==
  /\ pc = "ready"
  /\ Formatted(RejectionOf(request), formatGoogleApiError(RejectionOf(request)))
  /\ pc' = "done"
  /\ UNCHANGED <<tz, request, auth, now, backendCalls, msg, messages, systemPrompt, lastRequest,
                 inflight, turns, chunks, stream, textIn, outputText, sink, toolCalls,
                 currentToolCall, parseErrors, running, results>>

FormatNext == Format

SpecFormat == FormatInit /\ [][FormatNext]_vars

\* the category a user-facing message belongs to
CategoryOf(text) ==
  CASE StartsWith(text, "Invalid date/time format") -> "invalid-parameter"
    [] StartsWith(text, "Invalid parameter value") -> "invalid-parameter"
    [] StartsWith(text, "Bad request") -> "bad-request"
    [] StartsWith(text, "Invalid calendar ID") -> "bad-request"
    [] StartsWith(text, "Invalid event ID") -> "bad-request"
    [] StartsWith(text, "Authentication failed") -> "unauthenticated"
    [] StartsWith(text, "Permission denied") -> "forbidden"
    [] StartsWith(text, "Access denied") -> "forbidden"
    [] StartsWith(text, "Resource not found") -> "not-found"
    [] StartsWith(text, "Google Calendar API error") -> "unknown"
    [] OTHER -> "none"

\* the message speaks of a date or a time
DateWording(message) ==
  /\ message.t = "string"
  /\ \/ Includes(toLowerCase(TextOf(message)), "time")
     \/ Includes(toLowerCase(TextOf(message)), "date")

\* the category of a rejection by its reason code, else by its status code
CategoryByCode(d) ==
  CASE d.reason = "invalid" -> "invalid-parameter"
    [] d.reason = "badRequest" -> "bad-request"
    [] d.reason = "notFound" -> "not-found"
    [] d.reason = "forbidden" -> "forbidden"
    [] d.reason = "unauthorized" -> "unauthenticated"
    [] d.status = Num(400) /\ DateWording(d.message) -> "invalid-parameter"
    [] d.status = Num(400) -> "bad-request"
    [] d.status = Num(401) -> "unauthenticated"
    [] d.status = Num(403) -> "forbidden"
    [] d.status = Num(404) -> "not-found"
    [] OTHER -> "unknown"

\* C22: formatGoogleApiError maps every backend error to exactly one category by its
\* status/reason code and message: 400 with date/time wording gives the canonical-format
\* reminder, any other 400 a bad-request message, 401 unauthenticated, 403 forbidden,
\* 404 not-found, and any other or missing code the unknown-error message.
C22_OneCategory ==
  pc = "done" =>
    /\ outcome.formatted.ok
    /\ CategoryOf(outcome.formatted.v) = CategoryByCode(request)

\* the text that follows prefix p in s
After(s, p) == SubSeq(s, Len(p) + 1, Len(s))

\* the service rejected the dispatch's operation with error
RejectedWith(error) ==
  pc = "done" /\ backendCalls # <<>> /\ outcome.env.resp = RespError(error)

\* the tool result carries the message of category
SurfacedAs(category) ==
  /\ ~outcome.threw
  /\ outcome.message.content.ckind = "text"
  /\ StartsWith(outcome.message.content.text, "Error executing " \o request.name \o ": ")
  /\ CategoryOf(After(outcome.message.content.text,
                      "Error executing " \o request.name \o ": ")) = category

\* C23: a failure returned by the calendar service during any calendar tool is classified
\* by its status code and surfaced as that category's message in the tool result: a 404
\* yields the not-found message and a 401 the unauthenticated message.
C23_BackendFailureClassified ==
  /\ RejectedWith(NotFound404) => SurfacedAs("not-found")
  /\ RejectedWith(Unauthenticated401) => SurfacedAs("unauthenticated")

\* allTools (tools.ts 266-275): the names of the registry LLM.call sends with every
\* completion request (this.tools = allTools, tools: this.tools)
allTools ==
  <<"get_events_in_time_range", "create_event", "create_quick_event", "update_event",
    "delete_event", "check_conflicts", "find_free_time", "get_calendars">>
Registered == {allTools[i] : i \in DOMAIN allTools}

\* the nine tools the registry is to cover
NineTools ==
  {"bash", "get_events_in_time_range", "create_event", "create_quick_event", "update_event",
   "delete_event", "check_conflicts", "find_free_time", "get_calendars"}

\* the dispatch was answered with the unsupported-tool error and did nothing else
AnsweredUnsupported ==
  /\ ~outcome.threw
  /\ outcome.message.content =
       TextC("Error executing " \o request.name \o ": Unsupported tool: " \o request.name)
  /\ backendCalls = <<>>

\* C26: the set of tool names the dispatcher executes equals the set of tool names in
\* the registry sent to the completion service: the registry has a spec for each of the
\* nine tools, and a request naming a tool outside the registry is answered with an
\* unsupported-tool error and has no side effect.
C26_DispatcherMatchesRegistry ==
  pc = "done" =>
    /\ Registered = NineTools
    /\ request.name \notin Registered <=> AnsweredUnsupported

(***************************************************************************)
(* SpecLogin: the login, logout and balance commands, each run in a        *)
(* process of its own.  outcome holds the .env file of the working         *)
(* directory (envFile), ECHO_API_KEY in the shell that starts the commands *)
(* (shellEnv), process.env.ECHO_API_KEY of the latest process (processEnv) *)
(* and the key the latest client was built with (apiKey); request is the   *)
(* command of the running process, results the commands completed.         *)
(***************************************************************************)
MaxCommands == 3

ApiKeys == {"sk-1", "sk-2"}
CliCommands ==
  {[name |-> "login", key |-> k] : k \in ApiKeys}
    \cup {[name |-> "logout", key |-> ""], [name |-> "balance", key |-> ""]}

\* a file is its lines, the content split at the line feeds
EnvFiles ==
  {[exists |-> FALSE, lines |-> <<"">>],
   [exists |-> TRUE, lines |-> <<"">>],
   [exists |-> TRUE, lines |-> <<"ECHO_BASE_URL=https://echo.test">>],
   [exists |-> TRUE, lines |-> <<"ECHO_BASE_URL=https://echo.test", "">>],
   [exists |-> TRUE, lines |-> <<"ECHO_API_KEY=sk-0", "">>]}

envFile == outcome.envFile
shellEnv == outcome.shellEnv
processEnv == outcome.processEnv

\* the indices of the lines that assign ECHO_API_KEY
KeyLines(lines) == {i \in DOMAIN lines : StartsWith(lines[i], "ECHO_API_KEY=")}

\* the value the file assigns to ECHO_API_KEY (its last assignment), Undef without one
StoredKey(file) ==
  IF ~file.exists \/ KeyLines(file.lines) = {}
    THEN Undef
  ELSE LET line == file.lines[CHOOSE i \in KeyLines(file.lines) :
                                \A j \in KeyLines(file.lines) : j <= i]
       IN Str(SubSeq(line, Len("ECHO_API_KEY=") + 1, Len(line)))

\* dotenv.config(): a variable of the file is set unless the environment has it already
config(env, file) == IF env # Undef THEN env ELSE StoredKey(file)

Written(lines) == [exists |-> TRUE, lines |-> lines]

writeApiKeyToEnv(file, key) ==
  LET lines == IF file.exists THEN file.lines ELSE <<"">>
  IN IF KeyLines(lines) # {}
       THEN Written([lines EXCEPT ![CHOOSE i \in KeyLines(lines) :
                                      \A j \in KeyLines(lines) : i <= j] =
                                   "ECHO_API_KEY=" \o key])
     ELSE IF lines # <<"">> /\ lines[Len(lines)] # ""
       THEN Written(lines \o <<"", "ECHO_API_KEY=" \o key>>)
     ELSE Written(Append(lines, "ECHO_API_KEY=" \o key))

LoginInit ==
  /\ outcome \in [envFile : EnvFiles, shellEnv : {Undef, Str("sk-shell")},
                  processEnv : {Undef}, apiKey : {""}]
  /\ pc = "shell"
  /\ request = None
  /\ results = <<>>
  /\ auth = TRUE
  /\ tz = HostUTC
  /\ now = StartOfClock
  /\ backendCalls = <<>>
  /\ msg = <<>> /\ messages = <<>> /\ systemPrompt = "" /\ lastRequest = <<>>
  /\ inflight = 0 /\ turns = 0 /\ chunks = 0 /\ stream = <<>> /\ textIn = <<>>
  /\ outputText = "" /\ sink = <<>> /\ toolCalls = <<>> /\ currentToolCall = None
  /\ parseErrors = <<>> /\ running = {}

Exits(file, env, key) ==
  /\ outcome' = [envFile |-> file, shellEnv |-> shellEnv, processEnv |-> env, apiKey |-> key]
  /\ results' = Append(results, request)
  /\ request' = None
  /\ pc' = "shell"
  /\ UNCHANGED <<tz, auth, now, backendCalls, msg, messages, systemPrompt, lastRequest,
                 inflight, turns, chunks, stream, textIn, outputText, sink, toolCalls,
                 currentToolCall, parseErrors, running>>

\* a command starts: its environment is the shell's, then the module's dotenv.config()
StartProcess(command) ==
  /\ pc = "shell"
  /\ Len(results) < MaxCommands
  /\ pc' = "command"
  /\ request' = command
  /\ outcome' = [outcome EXCEPT !.processEnv = config(shellEnv, envFile)]
  /\ UNCHANGED <<tz, auth, now, backendCalls, msg, messages, systemPrompt, lastRequest,
                 inflight, turns, chunks, stream, textIn, outputText, sink, toolCalls,
                 currentToolCall, parseErrors, running, results>>

loginToEcho ==
  /\ pc = "command"
  /\ request.name = "login"
  /\ Exits(writeApiKeyToEnv(envFile, request.key), processEnv, outcome.apiKey)

logoutFromEcho ==
  /\ pc = "command"
  /\ request.name = "logout"
  /\ Exits(envFile, Undef, outcome.apiKey)

\* getAuthenticatedEchoClient: process.env.ECHO_API_KEY ?? ''
getEchoBalance ==
  /\ pc = "command"
  /\ request.name = "balance"
  /\ Exits(envFile, processEnv, IF processEnv = Undef THEN "" ELSE processEnv.s)

LoginNext ==
  \/ \E command \in CliCommands : StartProcess(command)
  \/ loginToEcho
  \/ logoutFromEcho
  \/ getEchoBalance

SpecLogin == LoginInit /\ [][LoginNext]_vars

\* the latest commands completed are a login, a logout and then the commands of `after`
LoggedOutThen(after) ==
  /\ pc = "shell"
  /\ Len(results) >= 2 + Len(after)
  /\ results[Len(results) - Len(after) - 1].name = "login"
  /\ results[Len(results) - Len(after)].name = "logout"
  /\ \A i \in DOMAIN after : results[Len(results) - Len(after) + i].name = after[i]

\* C29: after a login with an API key followed by a logout, the key that login saved
\* is no longer stored, so a later command run in a fresh process (its shell exporting
\* no key) finds no Echo API key.
C29_LogoutRemovesStoredKey ==
  /\ LoggedOutThen(<<>>) => StoredKey(envFile) = Undef
  /\ (LoggedOutThen(<<"balance">>) /\ shellEnv = Undef) => outcome.apiKey = ""

(***************************************************************************)
(* LLM.call and the loop driver as steps.                                  *)
(***************************************************************************)
\* the prompt the constructor builds once (cli-helpers.ts 557-656)
SessionPrompt == "You are a calendar assistant. Current date and time: session start."

\* LLM.call up to the request: push the input, send [system] + history
SendRequest(content) ==
  /\ messages' = pushAll(messages, content)
  /\ lastRequest' = requestMessages(systemPrompt, messages')
  /\ inflight' = inflight + 1
  /\ turns' = turns + 1
  /\ chunks' = 0
  /\ stream' = <<>> /\ textIn' = <<>> /\ sink' = <<>>
  /\ outputText' = "" /\ toolCalls' = <<>> /\ currentToolCall' = None /\ parseErrors' = <<>>

\* a loop body that hands each text fragment to the sink ahead of the earlier ones
ConsumeSinkFirst(chunk, st) ==
  /\ chunks' = chunks + 1
  /\ stream' = stream \o chunk.tool_calls
  /\ textIn' = IF chunk.content # "" THEN Append(textIn, chunk.content) ELSE textIn
  /\ sink' = IF chunk.content # "" THEN <<chunk.content>> \o sink ELSE sink
  /\ outputText' = st.outputText
  /\ currentToolCall' = st.currentToolCall

\* the for-await body on one chunk; st is the state the chunk leaves
Consume(chunk, st) ==
  /\ chunks' = chunks + 1
  /\ stream' = stream \o chunk.tool_calls
  /\ textIn' = IF chunk.content # "" THEN Append(textIn, chunk.content) ELSE textIn
  /\ sink' = IF chunk.content # "" THEN Append(sink, chunk.content) ELSE sink
  /\ outputText' = st.outputText
  /\ currentToolCall' = st.currentToolCall

\* a return that leaves the pending slot as it is
ReturnUnfinalized(st) ==
  /\ toolCalls' = st.toolCalls
  /\ parseErrors' = st.parseErrors
  /\ messages' = Append(messages, assistantMessage(st.outputText, st.toolCalls))
  /\ inflight' = inflight - 1
  /\ pc' = "returned"

\* after the loop: finalize the last slot, push the assistant message, return
Return(st) ==
  LET done == finalize(st)
  IN /\ toolCalls' = done.toolCalls
     /\ parseErrors' = done.parseErrors
     /\ messages' = Append(messages, assistantMessage(done.outputText, done.toolCalls))
     /\ inflight' = inflight - 1
     /\ pc' = "returned"

Current == AggState(outputText, toolCalls, currentToolCall, parseErrors)

\* loop: const [output, toolCalls] = await llm.call(msg)
CallStart ==
  /\ pc = "call"
  /\ turns < MaxTurns
  /\ SendRequest(msg)
  /\ pc' = "streaming"
  /\ UNCHANGED <<tz, msg, systemPrompt, running, results, auth, now, backendCalls, request, outcome>>

\* a chunk without finish reason arrives
StreamChunk(chunk, bound) ==
  /\ pc = "streaming"
  /\ chunks < bound
  /\ ~Finishes(chunk)
  /\ LET st == applyChunk(Current, chunk)
     IN /\ Consume(chunk, st)
        /\ toolCalls' = st.toolCalls
        /\ parseErrors' = st.parseErrors
  /\ UNCHANGED <<tz, pc, msg, messages, systemPrompt, lastRequest, inflight, turns, running, results,
                 auth, now, backendCalls, request, outcome>>

\* a chunk with finish reason stop or tool_calls arrives: break, then return
StreamFinish(chunk, bound) ==
  /\ pc = "streaming"
  /\ chunks < bound
  /\ Finishes(chunk)
  /\ LET st == applyChunk(Current, chunk)
     IN Consume(chunk, st) /\ Return(st)
  /\ UNCHANGED <<tz, msg, systemPrompt, lastRequest, turns, running, results,
                 auth, now, backendCalls, request, outcome>>

\* the stream ends without a finish reason
StreamEnd ==
  /\ pc = "streaming"
  /\ Return(Current)
  /\ UNCHANGED <<tz, msg, systemPrompt, lastRequest, turns, chunks, stream, textIn, sink, outputText,
                 currentToolCall, running, results, auth, now, backendCalls, request, outcome>>

\* completions.create rejects or the stream throws: LLM.call rejects, loop rejects,
\* main's catch logs the error
CallFails ==
  /\ pc = "streaming"
  /\ inflight' = inflight - 1
  /\ pc' = "failed"
  /\ UNCHANGED <<tz, msg, messages, systemPrompt, lastRequest, turns, chunks, stream, textIn, sink,
                 outputText, toolCalls, currentToolCall, parseErrors, running, results, auth, now,
                 backendCalls, request, outcome>>

\* a test that takes a single tool call for none
hasSeveralToolCalls(calls) == Len(calls) > 1

\* loop: if (toolCalls.length > 0)
hasToolCalls(calls) == Len(calls) > 0

\* loop: toolCalls.map(async tc => handleToolCall(tc, auth)): every call is started
DispatchAll ==
  /\ pc = "returned"
  /\ hasToolCalls(toolCalls)
  /\ running' = DOMAIN toolCalls
  /\ results' = [i \in DOMAIN toolCalls |-> None]
  /\ pc' = "dispatch"
  /\ UNCHANGED <<tz, msg, messages, systemPrompt, lastRequest, inflight, turns, chunks, stream, textIn,
                 sink, outputText, toolCalls, currentToolCall, parseErrors, auth, now,
                 backendCalls, request, outcome>>

\* loop: else msg = await userInput(), up to the prompt
AskUser ==
  /\ pc = "returned"
  /\ ~hasToolCalls(toolCalls)
  /\ pc' = "userInput"
  /\ UNCHANGED <<tz, msg, messages, systemPrompt, lastRequest, inflight, turns, chunks, stream, textIn,
                 sink, outputText, toolCalls, currentToolCall, parseErrors, running, results, auth,
                 now, backendCalls, request, outcome>>

\* a wait that ends while one dispatched call is still pending
PromiseAllButOne(pending) == Cardinality(pending) <= 1

\* await Promise.all(...) resolves once no dispatched call is pending
PromiseAllResolved(pending) == pending = {}

\* the environments of a dispatch inside the loop: the clock stands still there
LoopEnvs(toolCall, t) ==
  IF toolCall.name = "bash"
    THEN {[clk |-> StillClock(t), resp |-> RespOk(<<>>), proc |-> p] : p \in {ProcClose, ProcTimeout}}
  ELSE {[clk |-> StillClock(t), resp |-> r, proc |-> ProcClose] :
          r \in {RespOk(<<>>), RespError(BadRequestCoded)}}

\* a wait that collects the results in the order the promises settle
PromiseSettlesInArrival(i, out) ==
  /\ backendCalls' = backendCalls \o out.calls
  /\ running' = running \ {i}
  /\ IF out.threw
       THEN pc' = "failed" /\ UNCHANGED results
     ELSE /\ pc' = pc
          /\ results' = [results EXCEPT ![CHOOSE k \in DOMAIN results :
                                            /\ results[k] = None
                                            /\ \A j \in 1..(k - 1) : results[j] # None] =
                                          out.message]

\* the promise of request i settles with out
PromiseSettles(i, out) ==
  /\ backendCalls' = backendCalls \o out.calls
  /\ running' = running \ {i}
  /\ IF out.threw
       THEN pc' = "failed" /\ UNCHANGED results
     ELSE pc' = pc /\ results' = [results EXCEPT ![i] = out.message]

\* the handleToolCall of request i settles; when it rejects, Promise.all rejects, loop
\* rejects and main's catch logs the error
ToolSettle(i, env) ==
  /\ pc = "dispatch"
  /\ i \in running
  /\ PromiseSettles(i, handleToolCall(toolCalls[i], auth, env))
  /\ UNCHANGED <<tz, msg, messages, systemPrompt, lastRequest, inflight, turns, chunks, stream, textIn,
                 sink, outputText, toolCalls, currentToolCall, parseErrors, auth, now, request,
                 outcome>>

\* loop: msg = toolResults
DispatchDone ==
  /\ pc = "dispatch"
  /\ PromiseAllResolved(running)
  /\ msg' = results
  /\ pc' = "call"
  /\ UNCHANGED <<tz, messages, systemPrompt, lastRequest, inflight, turns, chunks, stream, textIn, sink,
                 outputText, toolCalls, currentToolCall, parseErrors, running, results, auth, now,
                 backendCalls, request, outcome>>

\* a prompt that compares the line as typed
UserLineCaseSensitive(answer) ==
  /\ pc = "userInput"
  /\ IF answer = "exit" \/ answer = "quit"
       THEN pc' = "exited" /\ UNCHANGED msg
     ELSE pc' = "call" /\ msg' = <<userMessage(answer)>>
  /\ UNCHANGED <<tz, messages, systemPrompt, lastRequest, inflight, turns, chunks, stream, textIn, sink,
                 outputText, toolCalls, currentToolCall, parseErrors, running, results, auth, now,
                 backendCalls, request, outcome>>

\* userInput (cli-helpers.ts 531-548): a line arrives at the prompt
UserLine(answer) ==
  /\ pc = "userInput"
  /\ IF toLowerCase(answer) = "exit" \/ toLowerCase(answer) = "quit"
       THEN pc' = "exited" /\ UNCHANGED msg
     ELSE pc' = "call" /\ msg' = <<userMessage(answer)>>
  /\ UNCHANGED <<tz, messages, systemPrompt, lastRequest, inflight, turns, chunks, stream, textIn, sink,
                 outputText, toolCalls, currentToolCall, parseErrors, running, results, auth, now,
                 backendCalls, request, outcome>>

\* the SIGINT handler (cli-helpers.ts 838-841): process.exit(0)
Interrupt ==
  /\ pc \notin {"exited", "interrupted", "failed"}
  /\ pc' = "interrupted"
  /\ UNCHANGED <<tz, msg, messages, systemPrompt, lastRequest, inflight, turns, chunks, stream, textIn,
                 sink, outputText, toolCalls, currentToolCall, parseErrors, running, results, auth,
                 now, backendCalls, request, outcome>>

\* the lines the user types and the chunks the completion service streams in the loop
UserLines == {"hello", "Exit", "quit"}
ListCommand == "{\"command\":\"ls\"}"
LoopChunks ==
  {Chunk("exit", <<>>, "stop"),
   Chunk("", <<>>, "tool_calls"),
   Chunk("", <<Delta(Num(0), "call_a", "bash", ListCommand)>>, ""),
   Chunk("", <<Delta(Num(1), "call_b", "get_events_in_time_range", "{}")>>, ""),
   Chunk("", <<Delta(Num(2), "call_c", "get_calendars", "{")>>, "")}

\* how main's try block around authorize and verifyAuth can end
StartupOutcomes == {"authorize throws", "verification fails", "verified"}

\* a startup that keeps the client authorize returned when its verification fails
AuthorizeKeepsClient(startup) ==
  /\ pc = "main"
  /\ auth' = (startup # "authorize throws")
  /\ outcome' = [startup |-> startup]
  /\ pc' = "authorized"
  /\ UNCHANGED <<tz, msg, messages, systemPrompt, lastRequest, inflight, turns, chunks, stream, textIn,
                 sink, outputText, toolCalls, currentToolCall, parseErrors, running, results,
                 now, backendCalls, request>>

\* main (cli-helpers.ts 804-823): auth = await authorize() assigns only when authorize
\* returns; verifyAuth never throws, and auth = undefined follows when it returns false
Authorize(startup) ==
  /\ pc = "main"
  /\ auth' = (startup = "verified")
  /\ outcome' = [startup |-> startup]
  /\ pc' = "authorized"
  /\ UNCHANGED <<tz, msg, messages, systemPrompt, lastRequest, inflight, turns, chunks, stream, textIn,
                 sink, outputText, toolCalls, currentToolCall, parseErrors, running, results,
                 now, backendCalls, request>>

\* main: await loop(new LLM('gpt-4o'), auth), up to the first prompt
StartLoop ==
  /\ pc = "authorized"
  /\ outcome' = None
  /\ pc' = "userInput"
  /\ UNCHANGED <<tz, msg, messages, systemPrompt, lastRequest, inflight, turns, chunks, stream, textIn,
                 sink, outputText, toolCalls, currentToolCall, parseErrors, running, results, auth,
                 now, backendCalls, request>>

\* main before authorization: let auth is undefined
Init ==
  /\ tz = HostUTC
  /\ pc = "main"
  /\ msg = <<>>
  /\ messages = <<>>
  /\ systemPrompt = SessionPrompt
  /\ lastRequest = <<>>
  /\ inflight = 0 /\ turns = 0 /\ chunks = 0
  /\ stream = <<>> /\ textIn = <<>> /\ sink = <<>>
  /\ outputText = "" /\ toolCalls = <<>> /\ currentToolCall = None /\ parseErrors = <<>>
  /\ running = {} /\ results = <<>>
  /\ auth = FALSE
  /\ now = StartOfClock
  /\ backendCalls = <<>>
  /\ request = None /\ outcome = None

Next ==
  \/ \E startup \in StartupOutcomes : Authorize(startup)
  \/ StartLoop
  \/ \E answer \in UserLines : UserLine(answer)
  \/ CallStart
  \/ \E chunk \in LoopChunks : StreamChunk(chunk, MaxChunks)
  \/ \E chunk \in LoopChunks : StreamFinish(chunk, MaxChunks)
  \/ StreamEnd
  \/ CallFails
  \/ DispatchAll
  \/ AskUser
  \/ \E i \in running : \E env \in LoopEnvs(toolCalls[i], now) : ToolSettle(i, env)
  \/ DispatchDone
  \/ Interrupt

Spec == Init /\ [][Next]_vars

(***************************************************************************)
(* Properties of the calendar handle (Spec).                               *)
(***************************************************************************)
\* the result of a calendar tool dispatched without a handle
NeedsHandle(toolCall) ==
  toolMessage(toolCall, TextC("Error executing " \o toolCall.name
                              \o ": Google Calendar authentication required"))
\* the results the shell tool gives for a call that carries a command
ShellResults(toolCall) ==
  {toolMessage(toolCall, TextC(executeBash(Get(toolCall.input, "command"), proc))) :
     proc \in {ProcClose, ProcTimeout}}

ExitWords == {"exit", "Exit", "EXIT", "quit", "Quit", "QUIT"}
IsExitLine(m) == m.role = "user" /\ \E w \in ExitWords : m.content = TextC(w)
HoldsExitLine(h) == \E i \in DOMAIN h : IsExitLine(h[i])

\* C27: a user line equal to exit or quit in any letter case ends the process without
\* being appended to history or sent to the completion service; the check applies only
\* to lines read at the user prompt, never to tool results or model output.
C27_ExitLineEndsSession ==
  /\ [](~HoldsExitLine(msg) /\ ~HoldsExitLine(messages) /\ ~HoldsExitLine(lastRequest))
  /\ [][pc' = "exited" =>
          /\ pc = "userInput"
          /\ UNCHANGED <<msg, messages, lastRequest, inflight, turns>>]_vars
  /\ [][pc # "exited"]_vars
C27_Witness ==
  /\ pc = "exited"
  /\ \E i \in DOMAIN messages :
       messages[i].role = "assistant" /\ messages[i].content = TextC("exit")

\* the session has ended
SessionEnded == pc \in {"exited", "interrupted", "failed"}

\* C28: the session ends only by an explicit user exit, an interrupt, or a failure of the
\* completion-service call itself; in every other reachable state, also after any tool
\* dispatch fault, the loop goes on to another completion request or to the prompt.
C28_EndsOnlyByExitInterruptOrCallFailure ==
  [][SessionEnded' =>
       \/ SessionEnded
       \/ pc' = "exited" /\ pc = "userInput"
       \/ pc' = "interrupted"
       \/ pc' = "failed" /\ pc = "streaming"]_vars

(***************************************************************************)
(* SpecAgg: one LLM.call over an arbitrary stream of fragments.            *)
(***************************************************************************)
\* the fragments of a stream: the first fragment of a call names it and carries no
\* argument text, the others carry pieces of the argument text
SlotId(i) == IF i = 0 THEN "call_a" ELSE "call_b"
SlotName(i) == IF i = 0 THEN "bash" ELSE "get_calendars"
AggDeltas ==
  {Delta(Num(i), SlotId(i), SlotName(i), "") : i \in {0, 1}}
  \cup {Delta(Num(i), "", "", a) : i \in {0, 1}, a \in {"{", "}", "{}"}}
  \cup {Delta(Undef, "", "", "{}")}
AggChunks ==
  {Chunk("", <<d>>, "") : d \in AggDeltas}
  \cup {Chunk(t, <<>>, "") : t \in {"Hi", "!"}}
  \cup {Chunk("", <<>>, f) : f \in {"stop", "tool_calls"}}

\* LLM.call has pushed the user's message and sent the request
AggInit ==
  /\ tz = HostUTC
  /\ pc = "streaming"
  /\ msg = <<userMessage("hello")>>
  /\ messages = msg
  /\ systemPrompt = SessionPrompt
  /\ lastRequest = requestMessages(systemPrompt, messages)
  /\ inflight = 1 /\ turns = 1 /\ chunks = 0
  /\ stream = <<>> /\ textIn = <<>> /\ sink = <<>>
  /\ outputText = "" /\ toolCalls = <<>> /\ currentToolCall = None /\ parseErrors = <<>>
  /\ running = {} /\ results = <<>>
  /\ auth = TRUE
  /\ now = StartOfClock
  /\ backendCalls = <<>>
  /\ request = None /\ outcome = None

AggNext ==
  \/ \E chunk \in AggChunks : StreamChunk(chunk, MaxFragments)
  \/ \E chunk \in AggChunks : StreamFinish(chunk, MaxFragments)
  \/ StreamEnd
  \/ CallFails

SpecAgg == AggInit /\ [][AggNext]_vars

(***************************************************************************)
(* Properties of the aggregation (SpecAgg).                                *)
(***************************************************************************)
\* the fragments of a stream that carry a slot index, and those of slot i
Indexed(fragments) == SelectSeq(fragments, LAMBDA d : d.index # Undef)
RECURSIVE OfSlot(_, _)
OfSlot(fragments, i) ==
  IF fragments = <<>> THEN <<>>
  ELSE IF Head(fragments).index = i THEN <<Head(fragments)>> \o OfSlot(Tail(fragments), i)
  ELSE OfSlot(Tail(fragments), i)

\* the slot indices of a stream in the order they first appear
RECURSIVE Discovery(_, _)
Discovery(fragments, seen) ==
  IF fragments = <<>> THEN <<>>
  ELSE IF Head(fragments).index \in seen THEN Discovery(Tail(fragments), seen)
  ELSE <<Head(fragments).index>> \o Discovery(Tail(fragments), seen \cup {Head(fragments).index})

\* the concatenation, in arrival order, of one field of fragments
RECURSIVE Concat(_, _)
Concat(fragments, field) ==
  IF fragments = <<>> THEN "" ELSE Head(fragments)[field] \o Concat(Tail(fragments), field)

\* the request the whole of slot i denotes
WholeSlot(fragments, i) ==
  [id |-> Concat(OfSlot(fragments, i), "id"),
   name |-> Concat(OfSlot(fragments, i), "name"),
   input |-> JSONParse(Concat(OfSlot(fragments, i), "arguments"))]

\* request r is the parse of all the fragments of slot i
BuiltFromWhole(r, fragments, i) ==
  /\ WholeSlot(fragments, i).input.ok
  /\ r = [id |-> WholeSlot(fragments, i).id, name |-> WholeSlot(fragments, i).name,
          input |-> WholeSlot(fragments, i).input.v]

\* C2: every ToolCallRequest returned by LLM.call has as its input the JSON parse of the
\* concatenation, in arrival order, of all argument-text fragments of its slot index; no
\* request is built from only part of the fragments of its slot.
C2_WholeSlotParsed ==
  pc = "returned" =>
    \A k \in DOMAIN toolCalls :
      \E j \in DOMAIN Discovery(Indexed(stream), {}) :
        BuiltFromWhole(toolCalls[k], Indexed(stream), Discovery(Indexed(stream), {})[j])

\* the fragments of two slots arrive interleaved: a slot is resumed after another one
Interleaved(fragments) ==
  \E a, b, c \in DOMAIN fragments :
    a < b /\ b < c /\ fragments[a].index = fragments[c].index /\ fragments[b].index # fragments[a].index

\* the stream splits one call over three or more fragments and interleaves a second call
SplitAndInterleaved(fragments) ==
  /\ Len(Discovery(fragments, {})) = 2
  /\ Interleaved(fragments)
  /\ \E i \in {fragments[a].index : a \in DOMAIN fragments} : Len(OfSlot(fragments, i)) >= 3
  /\ \A i \in {fragments[a].index : a \in DOMAIN fragments} : WholeSlot(fragments, i).input.ok

\* C3: when a stream splits one call's argument JSON across three or more fragments and
\* interleaves the fragments of a second call, LLM.call returns exactly two requests, one
\* per slot index, each with its whole arguments parsed, in the order the slot indices
\* first appeared.
C3_InterleavedTwoCalls ==
  (pc = "returned" /\ SplitAndInterleaved(Indexed(stream))) =>
    /\ Len(toolCalls) = 2
    /\ \A k \in 1..2 :
         BuiltFromWhole(toolCalls[k], Indexed(stream), Discovery(Indexed(stream), {})[k])

\* the slots as LLM.call accumulates them: the maximal runs of consecutive fragments
\* with the same index
JoinRun(d, runs) ==
  IF runs # <<>> /\ Head(runs)[1].index = d.index
    THEN <<(<<d>> \o Head(runs))>> \o Tail(runs)
  ELSE <<(<<d>>)>> \o runs
RECURSIVE Runs(_)
Runs(fragments) ==
  IF fragments = <<>> THEN <<>> ELSE JoinRun(Head(fragments), Runs(Tail(fragments)))
\* the runs that have ended: all but the one still open
Ended(runs) == SubSeq(runs, 1, Len(runs) - 1)

\* the accumulated argument text of a run, and the request it denotes when it parses
ArgumentsOf(run) == Concat(run, "arguments")
RequestOf(run) ==
  [id |-> Concat(run, "id"), name |-> Concat(run, "name"),
   input |-> JSONParse(ArgumentsOf(run)).v]

\* the requests of the runs whose text parses, and the texts of the others, in order
RECURSIVE ParsedRuns(_)
ParsedRuns(runs) ==
  IF runs = <<>> THEN <<>>
  ELSE IF JSONParse(ArgumentsOf(Head(runs))).ok
    THEN <<RequestOf(Head(runs))>> \o ParsedRuns(Tail(runs))
  ELSE ParsedRuns(Tail(runs))
RECURSIVE FailedRuns(_)
FailedRuns(runs) ==
  IF runs = <<>> THEN <<>>
  ELSE IF JSONParse(ArgumentsOf(Head(runs))).ok THEN FailedRuns(Tail(runs))
  ELSE <<ArgumentsOf(Head(runs))>> \o FailedRuns(Tail(runs))

PendingAtEnd == Runs(Indexed(stream))[Len(Runs(Indexed(stream)))]
\* the stream ended with a chunk that carries a finish reason: every other chunk of
\* these streams carries one text or one tool-call fragment
EndedByFinishReason == chunks = Len(stream) + Len(textIn) + 1

RECURSIVE JoinText(_)
JoinText(fragments) ==
  IF fragments = <<>> THEN "" ELSE Head(fragments) \o JoinText(Tail(fragments))

\* C30: during LLM.call the accumulated output text equals the concatenation, in arrival
\* order, of the text fragments received so far, and the sink has been handed exactly
\* these fragments, once each and in arrival order, before any later fragment is
\* processed; the text of the turn is the concatenation of all text fragments.
C30_TextAccumulatedAndForwarded ==
  /\ pc \in {"streaming", "returned"} =>
       /\ outputText = JoinText(textIn)
       /\ sink = textIn
  /\ pc = "returned" =>
       messages[Len(messages)].content =
         (IF JoinText(textIn) = "" THEN NullC ELSE TextC(JoinText(textIn)))

\* two different text fragments arrived around tool-call fragments
C30_Witness ==
  /\ pc = "returned"
  /\ textIn = <<"Hi", "!">>
  /\ outputText = "Hi!"
  /\ sink = <<"Hi", "!">>
  /\ toolCalls # <<>>

(***************************************************************************)
(* Properties of the agent loop (Spec).                                    *)
(***************************************************************************)
IsPrefix(s, t) == Len(s) <= Len(t) /\ SubSeq(t, 1, Len(s)) = s
Last(s) == s[Len(s)]
Front(s) == SubSeq(s, 1, Len(s) - 1)

\* the requests of the assistant message at position i of history h are answered, one
\* tool-result message each, by the messages that follow it
AnsweredAt(h, i) ==
  LET n == Len(h[i].tool_calls)
  IN /\ i + n <= Len(h)
     /\ \A k \in 1..n : h[i + k].role = "tool" /\ h[i + k].tool_call_id = h[i].tool_calls[k].id
     /\ (i + n < Len(h) => h[i + n + 1].role # "tool")

\* the tool-result message at position j of h answers a request of the assistant message
\* before it
AnswersAt(h, j) ==
  \E i \in 1..(j - 1) : h[i].role = "assistant" /\ j - i <= Len(h[i].tool_calls)

AllAnswered(h) ==
  \A i \in DOMAIN h :
    /\ (h[i].role = "assistant" => AnsweredAt(h, i))
    /\ (h[i].role = "tool" => AnswersAt(h, i))

\* C1: every tool-call request carried by an assistant message in history is answered by
\* exactly one tool-result message with the request's id, and those tool results are in
\* history and have been sent to the completion service before any further user message
\* is read or sent.
C1_RequestsAnsweredBeforeUser ==
  /\ \A j \in DOMAIN messages :
       messages[j].role = "user" => AllAnswered(SubSeq(messages, 1, j - 1))
  /\ (pc = "userInput" /\ turns > 0) =>
       (AllAnswered(messages) /\ Tail(lastRequest) = Front(messages))

\* a user line has been read after a turn whose two requests were answered and sent
C1_Witness ==
  /\ pc = "call" /\ Len(msg) = 1 /\ msg[1].role = "user"
  /\ \E i \in DOMAIN messages : messages[i].role = "assistant" /\ Len(messages[i].tool_calls) = 2

\* C5: at most one completion request is in flight, and none is while a tool call
\* dispatched for the previous turn has not completed: the turn advances only once all
\* concurrently dispatched tool calls have returned.
C5_OneRequestAfterAllSettled ==
  /\ inflight \in {0, 1}
  /\ inflight = 1 => (running = {} /\ \A i \in DOMAIN results : results[i] # None)

\* a request is in flight after a turn whose two tool calls ran concurrently
C5_Witness == inflight = 1 /\ turns >= 2 /\ Len(results) = 2

\* C32: the tool-result messages fed to the next turn are in the order of the tool-call
\* requests of the turn, one per request, whatever the order in which the concurrently
\* dispatched calls complete.
C32_ResultsInRequestOrder ==
  /\ pc = "dispatch" =>
       \A i \in DOMAIN results :
         results[i] # None =>
           /\ i \in DOMAIN toolCalls
           /\ results[i].role = "tool"
           /\ results[i].tool_call_id = toolCalls[i].id
  /\ (pc = "call" /\ turns > 0 /\ toolCalls # <<>>) =>
       /\ Len(msg) = Len(toolCalls)
       /\ \A i \in DOMAIN msg : msg[i] = toolMessage(toolCalls[i], msg[i].content)
\* the second request of the turn has completed while the first is still pending
C32_Witness ==
  /\ pc = "dispatch"
  /\ Len(toolCalls) = 2
  /\ toolCalls[1].id # toolCalls[2].id
  /\ running = {1}
  /\ results[2] # None

\* the turn that has just ended, as history shows it
LastTurn == Last(messages)

\* msg is the tool results of the requests of assistant message a, in order
ResultsOf(a, content) ==
  /\ Len(content) = Len(a.tool_calls)
  /\ \A k \in DOMAIN content :
       content[k].role = "tool" /\ content[k].tool_call_id = a.tool_calls[k].id

\* C6: after a turn with zero tool-call requests the loop reads one user line before the
\* next completion request; after a turn with one or more, every request is dispatched
\* and the input of the next completion request is exactly the resulting tool-result
\* messages, with no user prompt in between.
C6_NextInput ==
  /\ (pc = "userInput" /\ turns > 0) => (LastTurn.role = "assistant" /\ LastTurn.tool_calls = <<>>)
  /\ pc = "dispatch" =>
       /\ LastTurn.role = "assistant" /\ LastTurn.tool_calls # <<>>
       /\ DOMAIN results = DOMAIN toolCalls
       /\ running = {i \in DOMAIN results : results[i] = None}
  /\ (pc = "call" /\ turns > 0) =>
       /\ LastTurn.role = "assistant"
       /\ IF LastTurn.tool_calls = <<>>
            THEN Len(msg) = 1 /\ msg[1].role = "user"
          ELSE ResultsOf(LastTurn, msg)

\* the results of a turn with two requests are the input of the next request
C6_Witness == pc = "call" /\ turns > 0 /\ Len(msg) = 2 /\ msg[1].role = "tool"

\* Promise.all has rejected: a dispatched call threw
DispatchFailed == pc = "failed" /\ \E i \in DOMAIN results : results[i] = None

\* the tool calls the model produced in the stream, in the service's representation
ProducedCalls(fragments) ==
  [k \in DOMAIN Discovery(fragments, {}) |->
     [id |-> Concat(OfSlot(fragments, Discovery(fragments, {})[k]), "id"),
      type |-> "function",
      function |-> [name |-> Concat(OfSlot(fragments, Discovery(fragments, {})[k]), "name"),
                    arguments |-> Concat(OfSlot(fragments, Discovery(fragments, {})[k]), "arguments")]]]

\* C7 as stated: the assistant message is in history before any tool call of the turn is
\* dispatched, and the tool calls it records are exactly the tool calls the model
\* produced in the turn's stream, whether or not dispatch later fails.
C7_HistoryRecordsProduced ==
  (pc \in {"returned", "dispatch"} \/ DispatchFailed) =>
    /\ LastTurn.role = "assistant"
    /\ LastTurn.tool_calls = ProducedCalls(Indexed(stream))

\* requests in the completion service's representation of tool calls
InServiceForm(calls) ==
  [k \in DOMAIN calls |->
     [id |-> calls[k].id, type |-> "function",
      function |-> [name |-> calls[k].name, arguments |-> JSONStringify(calls[k].input)]]]

\* C7, amended: the assistant message is in history before any tool call of the turn is
\* dispatched, and the tool calls it records are exactly the requests LLM.call returned
\* for the turn (the calls whose argument text parsed), whether or not dispatch later
\* fails.
C7_HistoryRecordsReturned ==
  (pc \in {"returned", "dispatch"} \/ DispatchFailed) =>
    /\ LastTurn.role = "assistant"
    /\ LastTurn.content = (IF outputText = "" THEN NullC ELSE TextC(outputText))
    /\ LastTurn.tool_calls = InServiceForm(toolCalls)

\* a dispatch has failed in a turn that recorded a tool call
C7_Witness == DispatchFailed /\ Len(LastTurn.tool_calls) >= 1

\* C8: history is append-only, and the message list of every completion request is one
\* system message, the same on every turn, followed by the entire current history.
C8_AppendOnlyHistory ==
  [][/\ IsPrefix(messages, messages')
     /\ turns' # turns => lastRequest' = <<systemMessage(SessionPrompt)>> \o messages']_vars

\* a second request has been sent, carrying the first turn and its two tool results
C8_Witness ==
  turns = 2 /\ pc = "streaming" /\ Len(messages) = 4
  /\ lastRequest = <<systemMessage(SessionPrompt)>> \o messages

====
